---- MODULE Spec2Model ----
(***************************************************************************)
(* Chunked feature extraction and chunk combination of the SME             *)
(* electricity geospatial pipeline: split_dataframe, the per-family        *)
(* process_chunk runs, combine_chunk_results and combine_feature_files.    *)
(***************************************************************************)
EXTENDS Integers, Sequences, FiniteSets, TLC

VARIABLES
    a2_locs,      \* location table: the NIS_RAD of each row, in row order
    a2_bills,     \* billing table: the nis_rad of the row labelled i is a2_bills[i+1]
    num_chunks,   \* FEATURE_PARAMS['num_chunks']
    chunks,       \* what split_dataframe returned (a function on 0..num_chunks-1)
    job,          \* job[c]: the feature family the process of chunk index c extracts
    run,          \* run[c]: the state of the process of chunk index c
    files,        \* the features directory: path -> table, for the files that exist
    calls,        \* the calls of combine_chunk_results so far, each with what it
                  \* read and returned
    features,     \* what combine_feature_files, when it was called last, read and
                  \* returned: the caller holds it until the job's next step
    call          \* a call of one of the other functions: its name, its
                  \* arguments and, once it has returned, its result

vars == <<a2_locs, a2_bills, num_chunks, chunks, job, run, files, calls, features, call>>

(***************************************************************************)
(* Bounds of the model.                                                    *)
(***************************************************************************)
MaxLocs == 2       \* locations of the pipeline's location table
MaxBills == 2      \* rows of the billing table
MaxChunks == 2     \* chunk count of the pipeline
SplitMaxRows == 3  \* rows of the table handed to split_dataframe alone
SplitMaxChunks == 4 \* chunk count handed to split_dataframe alone
MaxCalls == 2      \* calls of combine_chunk_results in one behaviour

(***************************************************************************)
(* Sequence helpers.                                                       *)
(***************************************************************************)
Range(s) == {s[i] : i \in DOMAIN s}

IsInjective(s) == \A i, j \in DOMAIN s : s[i] = s[j] => i = j

SeqsUpTo(S, n) == UNION {[1..k -> S] : k \in 0..n}

RECURSIVE ConcatAll(_, _)
\* the concatenation of f[0], f[1], ..., f[n-1]
ConcatAll(f, n) == IF n = 0 THEN <<>> ELSE ConcatAll(f, n - 1) \o f[n - 1]

(***************************************************************************)
(* split_dataframe: numpy.array_split on the rows of the table.  The first *)
(* (len % n) sections hold len \div n + 1 rows, the others len \div n.      *)
(***************************************************************************)
SectionSizeFloor(total, n, i) == total \div n

SectionSize(total, n, i) == (total \div n) + (IF i < total % n THEN 1 ELSE 0)

RECURSIVE DivPoint(_, _, _)
\* rows in the sections before section i
DivPoint(total, n, i) ==
    IF i = 0 THEN 0 ELSE DivPoint(total, n, i - 1) + SectionSize(total, n, i - 1)

split_dataframe(df, n) ==
    [i \in 0..(n - 1) |->
        SubSeq(df, DivPoint(Len(df), n, i) + 1, DivPoint(Len(df), n, i + 1))]

(***************************************************************************)
(* Feature families and their chunk output files.  The roads extractor has *)
(* two sub-modes, each with its own chunk file; mode 'both' runs one after  *)
(* the other.                                                              *)
(***************************************************************************)
Families ==
    {"fsp", "population", "road_distances", "road_lengths", "nightlights", "structures"}

RasterFamilies == {"population", "nightlights"}

FamilyDir(family) ==
    CASE family = "fsp" -> "fsp"
      [] family = "population" -> "population"
      [] family = "road_distances" -> "roads"
      [] family = "road_lengths" -> "roads"
      [] family = "nightlights" -> "nightlights"
      [] family = "structures" -> "structures"

\* the file name up to the chunk index, character by character
ChunkPrefix(family) ==
    CASE family = "fsp" -> <<"N", "o", "f", "_", "F", "S", "P", "_">>
      [] family = "population" -> <<"S", "C", "_", "p", "o", "p", "_">>
      [] family = "road_distances" ->
            <<"S", "C", "_", "r", "o", "a", "d", "_",
              "d", "i", "s", "t", "a", "n", "c", "e", "s", "_">>
      [] family = "road_lengths" ->
            <<"S", "C", "_", "r", "o", "a", "d", "_",
              "l", "e", "n", "g", "t", "h", "s", "_">>
      [] family = "nightlights" ->
            <<"S", "C", "_", "n", "i", "g", "h", "t", "l", "i", "g", "h", "t", "s", "_">>
      [] family = "structures" ->
            <<"e", "l", "e", "c", "t", "r", "i", "f", "i", "e", "d", "_",
              "s", "t", "r", "u", "c", "t", "u", "r", "e", "s", "_">>

PckSuffix == <<".", "p", "c", "k">>

Digit(d) == <<"0", "1", "2", "3", "4", "5", "6", "7", "8", "9">>[d + 1]

RECURSIVE Decimal(_)
\* str(n) of a non-negative integer
Decimal(n) == IF n < 10 THEN <<Digit(n)>> ELSE Decimal(n \div 10) \o <<Digit(n % 10)>>

ChunkFileNameShared(family, chunk_id) == ChunkPrefix(family) \o PckSuffix

ChunkFileName(family, chunk_id) == ChunkPrefix(family) \o Decimal(chunk_id) \o PckSuffix

OutputPath(family, chunk_id) ==
    [dir |-> FamilyDir(family), name |-> ChunkFileName(family, chunk_id)]

(***************************************************************************)
(* Shared inputs of a chunk run, in the order process_chunk loads them.    *)
(***************************************************************************)
ReferenceData(family) ==
    CASE family = "fsp" -> "fsp_shapefile"
      [] family = "population" -> "worldpop_files"
      [] family = "road_distances" -> "roads_shapefile"
      [] family = "road_lengths" -> "roads_shapefile"
      [] family = "nightlights" -> "viirs_data"
      [] family = "structures" -> "customers_all"

\* the input datasets of config.INPUT_PATHS
InputNames ==
    {"a2_locations", "a2_bills", "customers_all", "tx_data", "fsp_shapefile",
     "roads_shapefile", "county_shapefile", "wards_shapefile",
     "constituency_shapefile", "worldpop_files", "viirs_data", "viirs_monthly"}

\* the structures extractor also loads the transformer data
LoadOrder(family) ==
    <<"a2_locations", "a2_bills", ReferenceData(family)>>
        \o (IF family = "structures" THEN <<"tx_data">> ELSE <<>>)

\* load_viirs_rasters catches the failure of a raster file and goes on with
\* the next file; every other loader lets the failure propagate
LoadRaises(family, unloadable) ==
    /\ unloadable # "none"
    /\ ~(family = "nightlights" /\ unloadable = "viirs_data")

\* the datasets opened up to and including the one that fails
DatasetsRead(family, unloadable) ==
    LET order == LoadOrder(family)
        stop == IF LoadRaises(family, unloadable)
                THEN CHOOSE i \in 1..Len(order) : order[i] = unloadable
                ELSE Len(order)
    IN {order[i] : i \in 1..stop}

(***************************************************************************)
(* The raster registry: the resolved years in insertion order.  Both       *)
(* loaders store the handle inside "with rasterio.open(file) as src", so a  *)
(* stored handle is closed when the loader returns.                        *)
(***************************************************************************)
RasterYears == {2015}

Registries == {r \in SeqsUpTo(RasterYears, Cardinality(RasterYears)) : IsInjective(r)}

HandleOpenAfterLoad == FALSE

DefaultBillYear == 2015

Abs(x) == IF x < 0 THEN -x ELSE x

\* the lookup taken without the comparison: the first year listed
MinScanFirst(years, target, best) == best

RECURSIVE MinScan(_, _, _)
\* Python's min(years, key=...): the first element with the least key
MinScan(years, target, best) ==
    IF years = <<>> THEN best
    ELSE MinScan(Tail(years), target,
                 IF Abs(Head(years) - target) < Abs(best - target)
                 THEN Head(years) ELSE best)

\* the result is <<>> for Python's None and <<year>> for a year
find_closest_raster_year(target_year, available_years) ==
    IF available_years = <<>> THEN <<>>
    ELSE <<MinScan(Tail(available_years), target_year, Head(available_years))>>

(***************************************************************************)
(* process_chunk, stage by stage.  A run is the record                     *)
(*   pc          where the process is                                      *)
(*   stages      the stages of Loaded -> Filtered -> PerRowExtracted ->    *)
(*               Persisted it has completed, in order                      *)
(*   reads       the input datasets it has opened                          *)
(*   unloadable  the dataset that could not be loaded ("none": all could)  *)
(*   rasters     the raster registry it loaded                             *)
(*   chunk_bills the billing rows of its chunk                             *)
(*   bad         the rows whose geometry computation raised                *)
(*   result      the feature rows it built                                 *)
(***************************************************************************)
ChunkIds == 0..(num_chunks - 1)

NewRun ==
    [pc |-> "Start", stages |-> <<>>, reads |-> {}, unloadable |-> "none",
     rasters |-> <<>>, chunk_bills |-> <<>>, bad |-> {}, result |-> <<>>]

\* the billing table with its row labels (a RangeIndex starting at 0)
Labelled(bills) == [i \in 1..Len(bills) |-> [index |-> i - 1, nis_rad |-> bills[i]]]

\* a2_bills[a2_bills.nis_rad.isin(sc_locs.index)]
FilterBills(bills, sc_locs) ==
    LET InChunk(row) == row.nis_rad \in Range(sc_locs)
    IN SelectSeq(Labelled(bills), InChunk)

Labels(rows) == {rows[i].index : i \in DOMAIN rows}

\* the load stage: the tables, then the family's reference data
LoadStage(family, unloadable, years) ==
    IF LoadRaises(family, unloadable)
    THEN [NewRun EXCEPT !.pc = "Raised", !.unloadable = unloadable,
                        !.reads = DatasetsRead(family, unloadable)]
    ELSE IF family = "nightlights" /\ years = <<>>
    THEN [NewRun EXCEPT !.pc = "Returned", !.unloadable = unloadable,
                        !.reads = DatasetsRead(family, unloadable),
                        !.stages = <<"Loaded">>]
    ELSE [NewRun EXCEPT !.pc = "Loaded", !.unloadable = unloadable,
                        !.reads = DatasetsRead(family, unloadable),
                        !.rasters = years, !.stages = <<"Loaded">>]

\* the split and the filter of the billing rows to the chunk's customers
FilterStage(family, r, locs, bills, n, chunk_id) ==
    LET sc_locs == split_dataframe(locs, n)[chunk_id]
        chunk_bills == FilterBills(bills, sc_locs)
    IN IF family = "structures" /\ Len(chunk_bills) = 0
       THEN [r EXCEPT !.pc = "Returned", !.stages = Append(@, "Filtered")]
       ELSE [r EXCEPT !.pc = "Filtered", !.stages = Append(@, "Filtered"),
                      !.chunk_bills = chunk_bills]

\* whether sampling a raster of the registry fails: the handle is closed, or
\* the mask operation raises
SampleFails(failed) == ~HandleOpenAfterLoad \/ failed

\* the feature value of one row: "feature" for a computed value, "zero" and
\* "nan" for the defaults
RowValue(family, rasters, failed, located) ==
    CASE family = "structures" -> IF located THEN "feature" ELSE "zero"
      [] family = "nightlights" ->
            IF find_closest_raster_year(DefaultBillYear, rasters) = <<>> THEN "zero"
            ELSE IF SampleFails(failed) THEN "zero" ELSE "feature"
      [] family = "population" -> IF SampleFails(failed) THEN "zero" ELSE "feature"
      [] family = "fsp" -> "feature"
      [] family = "road_distances" -> IF failed THEN "nan" ELSE "feature"
      [] family = "road_lengths" -> IF failed THEN "zero" ELSE "feature"

\* whether the failure of a row's computation leaves the row loop: only the
\* raster and the road extractors wrap the computation in try/except
RowFailurePropagates(family) == family \in {"structures", "fsp"}

\* the row loop raises: an uncaught row failure, or min() of an empty list of
\* years in the population extractor
RowLoopRaises(family, r, bad) ==
    \/ RowFailurePropagates(family) /\ bad # {}
    \/ family = "population" /\ r.rasters = <<>> /\ Len(r.chunk_bills) > 0

ExtractStage(family, r, bad, unlocated) ==
    IF RowLoopRaises(family, r, bad)
    THEN [r EXCEPT !.pc = "Raised", !.bad = bad]
    ELSE [r EXCEPT !.pc = "PerRowExtracted",
                   !.stages = Append(@, "PerRowExtracted"),
                   !.bad = bad,
                   !.result = [i \in DOMAIN r.chunk_bills |->
                       [index |-> r.chunk_bills[i].index,
                        nis_rad |-> r.chunk_bills[i].nis_rad,
                        value |-> RowValue(family, r.rasters,
                                           r.chunk_bills[i].index \in bad,
                                           r.chunk_bills[i].index \notin unlocated)]]]

PersistStage(r) == [r EXCEPT !.pc = "Persisted", !.stages = Append(@, "Persisted")]

\* save_pickle: the file is created or overwritten
SavePickle(dir, path, table) ==
    [p \in DOMAIN dir \cup {path} |-> IF p = path THEN table ELSE dir[p]]

(***************************************************************************)
(* The chunk runs: one process per chunk index, run by the batch scheduler *)
(* in any interleaving.                                                    *)
(***************************************************************************)
Customers == 1..(MaxLocs + 1)

\* no function is being called
NoCall == [fn |-> "none"]

\* combine_feature_files has not been called
NoFeatures ==
    [fn |-> "none", family |-> "none", read |-> <<>>, warnings |-> {},
     returned |-> <<>>, nothing |-> TRUE]

Init ==
    /\ a2_locs \in {[i \in 1..n |-> i] : n \in 0..MaxLocs}
    /\ a2_bills \in SeqsUpTo(Customers, MaxBills)
    /\ num_chunks \in 1..MaxChunks
    /\ chunks = <<>>
    /\ job \in [0..(num_chunks - 1) -> Families]
    /\ run = [c \in 0..(num_chunks - 1) |-> NewRun]
    /\ files = <<>>
    /\ calls = <<>>
    /\ features = NoFeatures
    /\ call = NoCall

Load(c) ==
    /\ run[c].pc = "Start"
    /\ \E unloadable \in {"none"} \cup Range(LoadOrder(job[c])) :
       \E years \in (IF job[c] \in RasterFamilies /\ ~LoadRaises(job[c], unloadable)
                     THEN Registries ELSE {<<>>}) :
          run' = [run EXCEPT ![c] = LoadStage(job[c], unloadable, years)]
    /\ UNCHANGED <<a2_locs, a2_bills, num_chunks, chunks, job, files, calls, features, call>>

Filter(c) ==
    /\ run[c].pc = "Loaded"
    /\ run' = [run EXCEPT ![c] =
                 FilterStage(job[c], run[c], a2_locs, a2_bills, num_chunks, c)]
    /\ UNCHANGED <<a2_locs, a2_bills, num_chunks, chunks, job, files, calls, features, call>>

ProcessRows(c) ==
    /\ run[c].pc = "Filtered"
    /\ \E bad \in SUBSET Labels(run[c].chunk_bills) :
       \E unlocated \in (IF job[c] = "structures"
                         THEN SUBSET (Labels(run[c].chunk_bills) \ bad) ELSE {{}}) :
          run' = [run EXCEPT ![c] = ExtractStage(job[c], run[c], bad, unlocated)]
    /\ UNCHANGED <<a2_locs, a2_bills, num_chunks, chunks, job, files, calls, features, call>>

Persist(c) ==
    /\ run[c].pc = "PerRowExtracted"
    /\ files' = SavePickle(files, OutputPath(job[c], c), run[c].result)
    /\ run' = [run EXCEPT ![c] = PersistStage(run[c])]
    /\ UNCHANGED <<a2_locs, a2_bills, num_chunks, chunks, job, calls, features, call>>

Next ==
    \/ \E c \in ChunkIds : Load(c)
    \/ \E c \in ChunkIds : Filter(c)
    \/ \E c \in ChunkIds : ProcessRows(c)
    \/ \E c \in ChunkIds : Persist(c)

Spec == Init /\ [][Next]_vars

(***************************************************************************)
(* The same processes on a location table with one billing row per         *)
(* customer: every interleaving of the chunk runs of any mix of families.  *)
(***************************************************************************)
InitConcurrent ==
    /\ a2_locs = [i \in 1..MaxLocs |-> i]
    /\ a2_bills = a2_locs
    /\ num_chunks = MaxChunks
    /\ chunks = <<>>
    /\ job \in [0..(num_chunks - 1) -> Families]
    /\ run = [c \in 0..(num_chunks - 1) |-> NewRun]
    /\ files = <<>>
    /\ calls = <<>>
    /\ features = NoFeatures
    /\ call = NoCall

SpecConcurrent == InitConcurrent /\ [][Next]_vars

(***************************************************************************)
(* split_dataframe on its own: any table of distinct rows, any chunk count *)
(***************************************************************************)
InitSplit ==
    /\ a2_locs \in {t \in SeqsUpTo(1..SplitMaxRows, SplitMaxRows) : IsInjective(t)}
    /\ num_chunks \in 1..SplitMaxChunks
    /\ chunks = <<>>
    /\ a2_bills = <<>>
    /\ job = <<>>
    /\ run = <<>>
    /\ files = <<>>
    /\ calls = <<>>
    /\ features = NoFeatures
    /\ call = NoCall

Split ==
    /\ chunks = <<>>
    /\ chunks' = split_dataframe(a2_locs, num_chunks)
    /\ UNCHANGED <<a2_locs, a2_bills, num_chunks, job, run, files, calls, features, call>>

NextSplit == Split

SpecSplit == InitSplit /\ [][NextSplit]_vars

(***************************************************************************)
(* The combiners.  combine_chunk_results looks for the chunk files         *)
(* base_path + chunk_id + ".pck" of chunk_id = 0..num_chunks-1;            *)
(* combine_feature_files globs the family's pattern.  Both concatenate     *)
(* with pd.concat(..., ignore_index=True).                                 *)
(***************************************************************************)
BasePath(family) == [dir |-> FamilyDir(family), prefix |-> ChunkPrefix(family)]

ChunkFilePath(base_path, chunk_id) ==
    [dir |-> base_path.dir, name |-> base_path.prefix \o Decimal(chunk_id) \o PckSuffix]

CombinedPath(base_path) ==
    [dir |-> base_path.dir,
     name |-> base_path.prefix \o <<"c", "o", "m", "b", "i", "n", "e", "d">> \o PckSuffix]

RECURSIVE LoadedChunkFiles(_, _, _)
\* the loop over range(num_chunks): the chunk files that exist, in chunk order
LoadedChunkFiles(fs, base_path, n) ==
    IF n = 0 THEN <<>>
    ELSE LET before == LoadedChunkFiles(fs, base_path, n - 1)
             chunk_file == ChunkFilePath(base_path, n - 1)
         IN IF chunk_file \in DOMAIN fs THEN Append(before, chunk_file) ELSE before

RECURSIVE LoadedChunkFilesShort(_, _, _)
LoadedChunkFilesShort(fs, base_path, n) ==
    IF n <= 1 THEN <<>>
    ELSE LET before == LoadedChunkFilesShort(fs, base_path, n - 1)
             chunk_file == ChunkFilePath(base_path, n - 2)
         IN IF chunk_file \in DOMAIN fs THEN Append(before, chunk_file) ELSE before

\* the chunk indices the loop warns about
WarnedChunks(fs, base_path, n) ==
    {chunk_id \in 0..(n - 1) : ChunkFilePath(base_path, chunk_id) \notin DOMAIN fs}

RECURSIVE Flatten(_)
Flatten(tables) == IF tables = <<>> THEN <<>> ELSE Head(tables) \o Flatten(Tail(tables))

\* pd.concat(tables, ignore_index=True): the rows in order, relabelled 0..n-1
ConcatIgnoreIndex(tables) ==
    LET rows == Flatten(tables)
    IN [k \in DOMAIN rows |-> [rows[k] EXCEPT !.index = k - 1]]

LoadAll(fs, paths) == [i \in DOMAIN paths |-> fs[paths[i]]]

LoadedWithCombined(fs, base_path, n) ==
    LET loaded == LoadedChunkFiles(fs, base_path, n)
    IN IF CombinedPath(base_path) \in DOMAIN fs
       THEN Append(loaded, CombinedPath(base_path)) ELSE loaded

\* the files combine_chunk_results reads
ChunkFilesToCombine(fs, base_path, n) == LoadedChunkFiles(fs, base_path, n)

combine_chunk_results(fs, family, n) ==
    LET base_path == BasePath(family)
        read == ChunkFilesToCombine(fs, base_path, n)
        result == ConcatIgnoreIndex(LoadAll(fs, read))
    IN [call |-> [fn |-> "combine_chunk_results", family |-> family,
                  read |-> read, warnings |-> WarnedChunks(fs, base_path, n),
                  returned |-> result, nothing |-> (read = <<>>)],
        files |-> IF read # <<>> THEN SavePickle(fs, CombinedPath(base_path), result)
                  ELSE fs]

\* glob's "*" matches any run of characters of the file name
RECURSIVE GlobMatch(_, _)
GlobMatch(pattern, name) ==
    IF pattern = <<>> THEN name = <<>>
    ELSE IF Head(pattern) = "*"
    THEN \/ GlobMatch(Tail(pattern), name)
         \/ name # <<>> /\ GlobMatch(pattern, Tail(name))
    ELSE /\ name # <<>>
         /\ Head(name) = Head(pattern)
         /\ GlobMatch(Tail(pattern), Tail(name))

FeatureName(family) ==
    IF family \in {"road_distances", "road_lengths"} THEN "roads" ELSE family

pattern_map(feature_name) ==
    CASE feature_name = "fsp" ->
            [dir |-> "fsp",
             name |-> <<"N", "o", "f", "_", "F", "S", "P", "_", "*">> \o PckSuffix]
      [] feature_name = "population" ->
            [dir |-> "population",
             name |-> <<"S", "C", "_", "*", "_", "*">> \o PckSuffix]
      [] feature_name = "roads" ->
            [dir |-> "roads",
             name |-> <<"R", "o", "a", "d", "s", "*">> \o PckSuffix]
      [] feature_name = "nightlights" ->
            [dir |-> "nightlights",
             name |-> <<"S", "C", "_", "N", "L", "_", "*", "_", "*">> \o PckSuffix]
      [] feature_name = "structures" ->
            [dir |-> "structures",
             name |-> <<"S", "C", "_", "E", "l", "e", "c", "t",
                        "S", "t", "r", "u", "c", "t", "s", "_", "*">> \o PckSuffix]

Glob(fs, pattern) ==
    {p \in DOMAIN fs : p.dir = pattern.dir /\ GlobMatch(pattern.name, p.name)}

Orders(S) == {o \in [1..Cardinality(S) -> S] : IsInjective(o)}

\* combine_feature_files with the matched files in the order glob lists them
combine_feature_files(fs, family, order) ==
    [fn |-> "combine_feature_files", family |-> family,
     read |-> order, warnings |-> {},
     returned |-> ConcatIgnoreIndex(LoadAll(fs, order)), nothing |-> (order = <<>>)]

\* process_chunk from start to end, with what the environment does to it
RunToEnd(family, locs, bills, n, chunk_id, unloadable, years, bad, unlocated) ==
    LET r1 == LoadStage(family, unloadable, years)
        r2 == IF r1.pc = "Loaded"
              THEN FilterStage(family, r1, locs, bills, n, chunk_id) ELSE r1
        r3 == IF r2.pc = "Filtered" THEN ExtractStage(family, r2, bad, unlocated) ELSE r2
    IN IF r3.pc = "PerRowExtracted" THEN PersistStage(r3) ELSE r3

(***************************************************************************)
(* The array job of one family and the combiners: chunk runs complete one  *)
(* by one, without a failure of the environment, and a combiner may be     *)
(* called at any time.                                                     *)
(***************************************************************************)
\* a billing table whose rows are in customer order
IsSorted(s) == \A i, j \in DOMAIN s : i < j => s[i] <= s[j]

InitCombine ==
    /\ a2_locs = [i \in 1..MaxLocs |-> i]
    /\ a2_bills \in {b \in SeqsUpTo(1..MaxLocs, MaxBills) : IsSorted(b)}
    /\ num_chunks \in 1..MaxChunks
    /\ chunks = <<>>
    /\ \E f \in Families : job = [c \in 0..(num_chunks - 1) |-> f]
    /\ run = [c \in 0..(num_chunks - 1) |-> NewRun]
    /\ files = <<>>
    /\ calls = <<>>
    /\ features = NoFeatures
    /\ call = NoCall

ChunkCompletes(c) ==
    /\ run[c].pc = "Start"
    /\ \E years \in (IF job[c] \in RasterFamilies THEN Registries ELSE {<<>>}) :
          LET r == RunToEnd(job[c], a2_locs, a2_bills, num_chunks, c,
                            "none", years, {}, {})
          IN /\ run' = [run EXCEPT ![c] = r]
             /\ files' = IF r.pc = "Persisted"
                         THEN SavePickle(files, OutputPath(job[c], c), r.result)
                         ELSE files
    /\ features' = NoFeatures
    /\ UNCHANGED <<a2_locs, a2_bills, num_chunks, chunks, job, calls, call>>

CombineChunkResults ==
    /\ Len(calls) < MaxCalls
    /\ LET out == combine_chunk_results(files, job[0], num_chunks)
       IN /\ calls' = Append(calls, out.call)
          /\ files' = out.files
    /\ features' = NoFeatures
    /\ UNCHANGED <<a2_locs, a2_bills, num_chunks, chunks, job, run, call>>

\* the caller of combine_feature_files takes the table before it calls again
CombineFeatureFiles ==
    /\ features = NoFeatures
    /\ call = NoCall
    /\ \E order \in Orders(Glob(files, pattern_map(FeatureName(job[0])))) :
          features' = combine_feature_files(files, job[0], order)
    /\ UNCHANGED <<a2_locs, a2_bills, num_chunks, chunks, job, run, files, calls, call>>

NextCombine ==
    \/ \E c \in ChunkIds : ChunkCompletes(c)
    \/ CombineChunkResults
    \/ CombineFeatureFiles

SpecCombine == InitCombine /\ [][NextCombine]_vars

(***************************************************************************)
(* Claims about the chunk runs.                                            *)
(***************************************************************************)
Ended(c) == run[c].pc \in {"Persisted", "Returned", "Raised"}

EndedWithoutError(c) == run[c].pc \in {"Persisted", "Returned"}

\* the rows of the chunk file of chunk index c, if the file exists
ChunkOutput(c) ==
    IF OutputPath(job[c], c) \in DOMAIN files THEN files[OutputPath(job[c], c)] ELSE <<>>

AllChunkOutputs == ConcatAll([c \in ChunkIds |-> ChunkOutput(c)], num_chunks)

\* C1: once the extraction of a family has run for every chunk index, the
\* chunk outputs together hold every billing row exactly once.
C1_OneRowPerBillingRow ==
    \A f \in Families :
        (\A c \in ChunkIds : job[c] = f /\ EndedWithoutError(c))
        => /\ Labels(AllChunkOutputs) = Labels(Labelled(a2_bills))
           /\ Len(AllChunkOutputs) = Len(a2_bills)

\* C2: concatenating the chunks split_dataframe returns, in chunk order,
\* gives back the location rows in their order, each exactly once.
C2_SplitReassembles ==
    chunks # <<>> =>
        /\ DOMAIN chunks = 0..(num_chunks - 1)
        /\ ConcatAll(chunks, num_chunks) = a2_locs

C2_Witness ==
    /\ chunks # <<>>
    /\ Len(a2_locs) > 0
    /\ num_chunks > Len(a2_locs)
    /\ \E i \in DOMAIN chunks : Len(chunks[i]) = 1

C2_WitnessUneven ==
    /\ chunks # <<>>
    /\ Len(a2_locs) > num_chunks
    /\ Len(a2_locs) % num_chunks # 0

\* a step of the process of chunk index c and of no other process
StepOf(c) ==
    /\ run'[c] # run[c]
    /\ \A d \in ChunkIds \ {c} : run'[d] = run[d]

\* every file created or changed by the step is the file named by the
\* family and chunk index of c, and is the chunk file of no other chunk index
WritesOnlyOwnFile(c) ==
    \A p \in DOMAIN files' :
        (p \notin DOMAIN files \/ files'[p] # files[p])
        => /\ p = OutputPath(job[c], c)
           /\ \A d \in ChunkIds \ {c} : \A f \in Families : p # OutputPath(f, d)

\* C3: in every interleaving of the chunk runs, a step leaves the shared
\* inputs as they are, removes no file, writes only the file of its own
\* family and chunk index, and a run opens nothing but the shared inputs.
C3_ChunkRunsIsolated ==
    [][/\ a2_locs' = a2_locs /\ a2_bills' = a2_bills /\ num_chunks' = num_chunks
       /\ DOMAIN files \subseteq DOMAIN files'
       /\ files' # files => \E c \in ChunkIds : StepOf(c) /\ WritesOnlyOwnFile(c)
       /\ \A c \in ChunkIds : run'[c].reads \subseteq InputNames]_vars

C3_Witness ==
    \E c, d \in ChunkIds :
        /\ c # d
        /\ job[c] # job[d]
        /\ run[c].pc = "Persisted"
        /\ OutputPath(job[c], c) \in DOMAIN files
        /\ run[d].pc = "PerRowExtracted"

DefaultValues == {"zero", "nan"}

\* C4: a failure in the computation of one row is caught for that row:
\* the run does not raise, and the row holds the default value.
C4_RowFailureCaught ==
    \A c \in ChunkIds :
        run[c].bad # {}
        => /\ run[c].pc # "Raised"
           /\ \A i \in DOMAIN run[c].result :
                 run[c].result[i].index \in run[c].bad
                 => run[c].result[i].value \in DefaultValues

\* C5: a run that ended without an error went through the four stages in
\* order and wrote its chunk file.
C5_EndedRunPersisted ==
    \A c \in ChunkIds :
        EndedWithoutError(c)
        => /\ run[c].stages = <<"Loaded", "Filtered", "PerRowExtracted", "Persisted">>
           /\ OutputPath(job[c], c) \in DOMAIN files

\* C6: a run with a dataset that cannot be loaded is aborted at load time,
\* before any stage completes, and writes no file.
C6_LoadFailureAborts ==
    \A c \in ChunkIds :
        run[c].unloadable # "none"
        => /\ run[c].pc = "Raised"
           /\ run[c].stages = <<>>
           /\ OutputPath(job[c], c) \notin DOMAIN files

\* C7: a run of a raster extractor that loaded an empty registry ends
\* without an error and persists every billing row of its chunk.
C7_EmptyRegistryTolerated ==
    \A c \in ChunkIds :
        (/\ job[c] \in RasterFamilies
         /\ Ended(c)
         /\ run[c].stages # <<>>
         /\ run[c].rasters = <<>>)
        => /\ run[c].pc = "Persisted"
           /\ Labels(ChunkOutput(c)) =
                 Labels(FilterBills(a2_bills, split_dataframe(a2_locs, num_chunks)[c]))

(***************************************************************************)
(* Claims about the combiners.                                             *)
(***************************************************************************)
LastCall == calls[Len(calls)]

\* the rows a call reads, as they are labelled in the files it reads
SourceRows(c) == Flatten(LoadAll(files, c.read))

IndexKept(c) ==
    \A k \in DOMAIN c.returned : c.returned[k].index = SourceRows(c)[k].index

\* C8: every row of the table a combiner returns, whichever combiner and
\* whatever the order of the files, has the record index it has in the
\* chunk file it comes from.
C8_RecordIndexKept ==
    [][/\ Len(calls') > Len(calls) => IndexKept(calls'[Len(calls')])
       /\ (features' # features /\ features'.fn = "combine_feature_files")
          => IndexKept(features')]_vars

\* the columns of the rows, without the row labels
Content(rows) ==
    [k \in DOMAIN rows |-> [nis_rad |-> rows[k].nis_rad, value |-> rows[k].value]]

PresentChunks(f) == {c \in ChunkIds : OutputPath(f, c) \in DOMAIN files}

PresentTables(f) ==
    [c \in ChunkIds |->
        IF c \in PresentChunks(f) THEN files[OutputPath(f, c)] ELSE <<>>]

RowBag(rows) ==
    LET cont == Content(rows)
    IN [x \in Range(cont) |-> Cardinality({k \in DOMAIN cont : cont[k] = x})]

SubBag(a, b) == \A x \in DOMAIN a : x \in DOMAIN b /\ a[x] <= b[x]

StrictSubBag(a, b) == SubBag(a, b) /\ a # b

\* the call read the chunk file of every chunk
IsComplete(c) == \A i \in ChunkIds : OutputPath(c.family, i) \in Range(c.read)

\* two calls of combine_chunk_results, one after the other
Recombined(i) == i + 1 \in DOMAIN calls

\* C10 as claimed: combining the complete set of chunk files twice gives the
\* same rows, and combining a strict subset gives a strict sub-table of the
\* full combination.
C10_StrictSubTable ==
    \A i \in DOMAIN calls :
        Recombined(i) =>
            /\ (IsComplete(calls[i]) /\ IsComplete(calls[i + 1]))
               => RowBag(calls[i].returned) = RowBag(calls[i + 1].returned)
            /\ (~IsComplete(calls[i]) /\ IsComplete(calls[i + 1]))
               => StrictSubBag(RowBag(calls[i].returned), RowBag(calls[i + 1].returned))

\* C10 as amended: combining the complete set twice gives the same rows;
\* combining a strict subset gives a sub-table of the full combination, a
\* strict one exactly when a chunk file left out holds a row.
C10_SubTable ==
    \A i \in DOMAIN calls :
        Recombined(i) =>
            /\ (IsComplete(calls[i]) /\ IsComplete(calls[i + 1]))
               => RowBag(calls[i].returned) = RowBag(calls[i + 1].returned)
            /\ (~IsComplete(calls[i]) /\ IsComplete(calls[i + 1]))
               => /\ SubBag(RowBag(calls[i].returned), RowBag(calls[i + 1].returned))
                  /\ StrictSubBag(RowBag(calls[i].returned),
                                  RowBag(calls[i + 1].returned))
                     <=> \E p \in Range(calls[i + 1].read) \ Range(calls[i].read) :
                            Len(files[p]) > 0

C10_Witness ==
    /\ Len(calls) = 2
    /\ Recombined(1)
    /\ IsComplete(calls[1])
    /\ IsComplete(calls[2])
    /\ num_chunks > 1
    /\ Len(calls[2].returned) > 1
    /\ CombinedPath(BasePath(calls[2].family)) \in DOMAIN files

C10_WitnessSubset ==
    /\ Len(calls) = 2
    /\ Recombined(1)
    /\ ~IsComplete(calls[1])
    /\ IsComplete(calls[2])
    /\ calls[1].read # <<>>
    /\ Len(calls[2].returned) > Len(calls[1].returned)

(***************************************************************************)
(* create_features_dataframe: the billing table, left-merged with the      *)
(* locations and then, feature by feature, with the table                  *)
(* combine_feature_files returns, on the column nis_rad.  A row of         *)
(* df_features is the record                                               *)
(*   bill     the label of the billing row it comes from                   *)
(*   nis_rad  the customer of the billing row                              *)
(*   located  whether the location merge found the customer                *)
(*   cols     the feature values merged so far, one per merged feature     *)
(***************************************************************************)
features_to_combine == <<"fsp", "population", "roads", "nightlights", "structures">>

\* left.merge(right, on='nis_rad', how='left'): every left row once per
\* right row of the same nis_rad, or once with NaN when there is none
MergeLeft(left, right) ==
    Flatten([i \in DOMAIN left |->
        LET InRow(r) == r.nis_rad = left[i].nis_rad
            matches == SelectSeq(right, InRow)
        IN IF matches = <<>>
           THEN <<[left[i] EXCEPT !.cols = Append(@, "nan")]>>
           ELSE [k \in DOMAIN matches |->
                    [left[i] EXCEPT !.cols = Append(@, matches[k].value)]]])

\* a2_bills.copy().merge(a2_locs[['NIS_RAD', 'LAT', 'LON']], how='left')
BillsWithLocations(locs, bills) ==
    Flatten([i \in 1..Len(bills) |->
        LET InRow(nis) == nis = bills[i]
            matches == SelectSeq(locs, InRow)
        IN IF matches = <<>>
           THEN <<[bill |-> i - 1, nis_rad |-> bills[i], located |-> FALSE, cols |-> <<>>]>>
           ELSE [k \in DOMAIN matches |->
                    [bill |-> i - 1, nis_rad |-> bills[i], located |-> TRUE, cols |-> <<>>]]])

RECURSIVE MergeFeatures(_, _, _, _)
\* the loop over features_to_combine, from feature k on; orders[k] is the
\* order in which glob lists the files of feature k
MergeFeatures(df, fs, orders, k) ==
    IF k > Len(features_to_combine) THEN df
    ELSE LET feature_data == combine_feature_files(fs, features_to_combine[k], orders[k])
         IN MergeFeatures(IF feature_data.returned = <<>> THEN df
                          ELSE MergeLeft(df, feature_data.returned),
                          fs, orders, k + 1)

create_features_dataframe(locs, bills, fs, orders) ==
    MergeFeatures(BillsWithLocations(locs, bills), fs, orders, 1)

GlobOrders(fs) ==
    {o \in [DOMAIN features_to_combine -> UNION {Orders(G) : G \in SUBSET DOMAIN fs}] :
        \A k \in DOMAIN o :
            o[k] \in Orders(Glob(fs, pattern_map(features_to_combine[k])))}

CreateFeaturesDataframe ==
    /\ call.fn = "none"
    /\ \E orders \in GlobOrders(files) :
          call' = [fn |-> "create_features_dataframe",
                   df_features |-> create_features_dataframe(a2_locs, a2_bills, files, orders)]
    /\ UNCHANGED <<a2_locs, a2_bills, num_chunks, chunks, job, run, files, calls, features>>

NextMerge ==
    \/ \E c \in ChunkIds : ChunkCompletes(c)
    \/ CreateFeaturesDataframe

SpecMerge == InitCombine /\ [][NextMerge]_vars

\* C11: the table create_features_dataframe returns has exactly one row per
\* billing row: no billing row is missing from it and none is in it twice.
C11_OneRowPerBillingRecord ==
    call.fn = "create_features_dataframe" =>
        /\ Len(call.df_features) = Len(a2_bills)
        /\ \A i \in 1..Len(a2_bills) :
              Cardinality({k \in DOMAIN call.df_features :
                              call.df_features[k].bill = i - 1}) = 1

(***************************************************************************)
(* Point tables and the rtree spatial indexes built from them.  A          *)
(* coordinate is <<>> when it is absent (NaN) and <<v>> when it is v, in   *)
(* whole degrees; a row of a point table is [LAT, LON, installation].  An  *)
(* index maps the label of each inserted row to the box                    *)
(* <<minx, miny, maxx, maxy>> it was inserted with.                        *)
(***************************************************************************)
MaxCoord == 2      \* the grid of valid coordinates is 0..MaxCoord
MaxPoints == 2     \* rows of a point table
MaxRadius == 2     \* buffer radius, in degrees

MaxLat == 90

MaxLon == 180

LatValues == (0..MaxCoord) \cup {MaxLat + 1}

LonValues == (0..MaxCoord) \cup {MaxLon + 1}

Optional(S) == {<<>>} \cup {<<v>> : v \in S}

notna(x) == x # <<>>

PointRows == [LAT : Optional(LatValues), LON : Optional(LonValues),
              installation : Optional({1})]

PointTables == SeqsUpTo(PointRows, MaxPoints)

create_spatial_index_from_dataframe(df, filter_valid) ==
    LET valid_mask(i) ==
            /\ notna(df[i].LAT)
            /\ notna(df[i].LON)
            /\ df[i].LAT[1] >= 0 - MaxLat /\ df[i].LAT[1] <= MaxLat
            /\ df[i].LON[1] >= 0 - MaxLon /\ df[i].LON[1] <= MaxLon
        valid_df == IF filter_valid THEN {i \in DOMAIN df : valid_mask(i)} ELSE DOMAIN df
    IN [idx |-> [i \in valid_df |-> <<df[i].LON, df[i].LAT, df[i].LON, df[i].LAT>>],
        valid_df |-> valid_df]

\* the box is inserted as (lat, lon, lat, lon)
create_customer_spatial_index(customers_df) ==
    LET valid_customers ==
            {i \in DOMAIN customers_df :
                /\ notna(customers_df[i].LAT)
                /\ notna(customers_df[i].LON)
                /\ notna(customers_df[i].installation)}
    IN [idx |-> [i \in valid_customers |->
                    <<customers_df[i].LAT, customers_df[i].LON,
                      customers_df[i].LAT, customers_df[i].LON>>],
        valid_df |-> valid_customers]

\* the index of the FSP points: every row is inserted, as the point (x, y)
create_spatial_index(df) ==
    [idx |-> [i \in DOMAIN df |-> <<df[i].LON, df[i].LAT, df[i].LON, df[i].LAT>>],
     valid_df |-> DOMAIN df]

\* Point(center_lon, center_lat).buffer(radius_deg).bounds
BufferBounds(center_lat, center_lon, radius_deg) ==
    <<center_lon - radius_deg, center_lat - radius_deg,
      center_lon + radius_deg, center_lat + radius_deg>>

\* rtree's intersection of a stored box with the query bounds (closed
\* boxes; a comparison with NaN is false)
Intersects(box, bounds) ==
    /\ \A k \in 1..4 : notna(box[k])
    /\ box[1][1] <= bounds[3] /\ box[3][1] >= bounds[1]
    /\ box[2][1] <= bounds[4] /\ box[4][1] >= bounds[2]

PotentialHits(idx, bounds) == {i \in DOMAIN idx : Intersects(idx[i], bounds)}

\* buffer_geom.contains(Point(row.LON, row.LAT)).  The buffer is a polygon
\* inscribed in the circle of radius radius_deg; on the whole-degree grid
\* and for these radii a point is inside the polygon exactly when it is
\* inside the circle.
BufferContains(center_lat, center_lon, radius_deg, row) ==
    /\ notna(row.LAT)
    /\ notna(row.LON)
    /\ (row.LON[1] - center_lon) * (row.LON[1] - center_lon)
       + (row.LAT[1] - center_lat) * (row.LAT[1] - center_lat)
       < radius_deg * radius_deg

\* query_spatial_index_with_buffer and find_customers_in_buffer up to the
\* exact filter: the candidates and the rows the exact test keeps
QueryWithBuffer(idx, center_lat, center_lon, radius_deg, df) ==
    LET potential_hits ==
            PotentialHits(idx, BufferBounds(center_lat, center_lon, radius_deg))
    IN [potential_hits |-> potential_hits,
        in_buffer |-> {i \in potential_hits :
                          BufferContains(center_lat, center_lon, radius_deg, df[i])}]

query_spatial_index_with_buffer(idx, center_lat, center_lon, radius_deg, df) ==
    QueryWithBuffer(idx, center_lat, center_lon, radius_deg, df)

\* max_period is <<>> for None
find_customers_in_buffer(center_lat, center_lon, idx, df, radius_deg, max_period) ==
    LET q == QueryWithBuffer(idx, center_lat, center_lon, radius_deg, df)
    IN [q EXCEPT !.in_buffer =
            IF max_period = <<>> THEN @
            ELSE {i \in @ : df[i].installation[1] <= max_period[1]}]

IndexBuilders ==
    {"create_spatial_index_from_dataframe", "create_customer_spatial_index",
     "create_spatial_index"}

BuildIndex ==
    /\ call.fn = "none"
    /\ \E df \in PointTables :
          \/ \E filter_valid \in BOOLEAN :
                LET built == create_spatial_index_from_dataframe(df, filter_valid)
                IN call' = [fn |-> "create_spatial_index_from_dataframe", df |-> df,
                            idx |-> built.idx, valid_df |-> built.valid_df]
          \/ LET built == create_customer_spatial_index(df)
             IN call' = [fn |-> "create_customer_spatial_index", df |-> df,
                         idx |-> built.idx, valid_df |-> built.valid_df]
          \/ LET built == create_spatial_index(df)
             IN call' = [fn |-> "create_spatial_index", df |-> df,
                         idx |-> built.idx, valid_df |-> built.valid_df]
    /\ UNCHANGED <<a2_locs, a2_bills, num_chunks, chunks, job, run, files, calls, features>>

QueryIndex ==
    /\ call.fn \in {"create_spatial_index_from_dataframe", "create_customer_spatial_index"}
    /\ \E center_lat, center_lon \in 0..MaxCoord, radius_deg \in 1..MaxRadius :
          IF call.fn = "create_spatial_index_from_dataframe"
          THEN LET q == query_spatial_index_with_buffer(
                            call.idx, center_lat, center_lon, radius_deg, call.df)
               IN call' = [fn |-> "query_spatial_index_with_buffer", df |-> call.df,
                           idx |-> call.idx, center_lat |-> center_lat,
                           center_lon |-> center_lon, radius_deg |-> radius_deg,
                           potential_hits |-> q.potential_hits,
                           in_buffer |-> q.in_buffer]
          ELSE \E max_period \in Optional({1}) :
               LET q == find_customers_in_buffer(
                            center_lat, center_lon, call.idx, call.df, radius_deg,
                            max_period)
               IN call' = [fn |-> "find_customers_in_buffer", df |-> call.df,
                           idx |-> call.idx, center_lat |-> center_lat,
                           center_lon |-> center_lon, radius_deg |-> radius_deg,
                           potential_hits |-> q.potential_hits,
                           in_buffer |-> q.in_buffer]
    /\ UNCHANGED <<a2_locs, a2_bills, num_chunks, chunks, job, run, files, calls, features>>

InitIndex ==
    /\ a2_locs = <<>>
    /\ a2_bills = <<>>
    /\ num_chunks = 1
    /\ chunks = <<>>
    /\ job = <<>>
    /\ run = <<>>
    /\ files = <<>>
    /\ calls = <<>>
    /\ features = NoFeatures
    /\ call = NoCall

NextIndex ==
    \/ BuildIndex
    \/ QueryIndex

SpecIndex == InitIndex /\ [][NextIndex]_vars

\* C12: in both queries, every indexed point the exact buffer test accepts
\* is among the candidates of the bounding-box query.
C12_NoFalseNegatives ==
    call.fn \in {"query_spatial_index_with_buffer", "find_customers_in_buffer"} =>
        \A i \in DOMAIN call.idx :
            BufferContains(call.center_lat, call.center_lon, call.radius_deg, call.df[i])
            => i \in call.potential_hits

\* C13: a built index holds no record with an absent latitude or longitude
\* and no two records with the same coordinates.
C13_AbsentDuplicateExcluded ==
    call.fn \in IndexBuilders =>
        \A i \in DOMAIN call.idx :
            /\ notna(call.df[i].LAT)
            /\ notna(call.df[i].LON)
            /\ \A j \in DOMAIN call.idx :
                  (call.df[j].LAT = call.df[i].LAT /\ call.df[j].LON = call.df[i].LON)
                  => j = i

(***************************************************************************)
(* The raster samplers.  A raster is a strip of cells 1..Len(values) with  *)
(* its nodata value (<<>> when the file sets none).  A buffer is given by  *)
(* the cell positions of its bounding window and, among them, the cells    *)
(* inside the polygon; a position beyond the strip lies outside the        *)
(* raster.  A statistic that need not be whole is the fraction num/den;    *)
(* std is given by its square.                                             *)
(***************************************************************************)
MaxCells == 2      \* cells of a raster

nodata_threshold_default == -999

PixelValues == {nodata_threshold_default - 1, 0, 3, 8}

Rasters ==
    {[values |-> v, nodata |-> n] :
        v \in SeqsUpTo(PixelValues, MaxCells) \ {<<>>},
        n \in Optional({nodata_threshold_default - 1})}

Positions == 1..(MaxCells + 1)

Buffers ==
    {[window |-> w, inside |-> i] : w \in (SUBSET Positions) \ {{}}, i \in SUBSET Positions}

RasterCells(raster) == 1..Len(raster.values)

\* rasterio.mask.mask(raster, [buffer_geom], crop=True) raises when the
\* shapes do not overlap the raster, or for another reason (mask_fails)
MaskRaises(raster, buffer, mask_fails) ==
    mask_fails \/ buffer.window \cap RasterCells(raster) = {}

\* the value mask() gives the cells outside the polygon: the nodata value
\* of the raster, or 0 when the raster has none
FillValue(raster) == IF raster.nodata = <<>> THEN 0 ELSE raster.nodata[1]

RECURSIVE CellsInOrder(_)
CellsInOrder(cells) ==
    IF cells = {} THEN <<>>
    ELSE LET first == CHOOSE c \in cells : \A d \in cells : c <= d
         IN <<first>> \o CellsInOrder(cells \ {first})

\* masked_data: the cells of the window that lie on the raster, those
\* outside the polygon filled
Mask(raster, buffer) ==
    LET cells == CellsInOrder(buffer.window \cap RasterCells(raster))
    IN [k \in DOMAIN cells |->
           IF cells[k] \in buffer.inside THEN raster.values[cells[k]]
           ELSE FillValue(raster)]

Frac(n, d) == [num |-> n, den |-> d]

RECURSIVE Sum(_)
Sum(data) == IF data = <<>> THEN 0 ELSE Head(data) + Sum(Tail(data))

Max(data) == CHOOSE x \in Range(data) : \A y \in Range(data) : y <= x

Min(data) == CHOOSE x \in Range(data) : \A y \in Range(data) : x <= y

RECURSIVE Sorted(_)
Sorted(data) ==
    IF data = <<>> THEN <<>>
    ELSE LET k == CHOOSE i \in DOMAIN data : \A j \in DOMAIN data : data[i] <= data[j]
         IN <<data[k]>> \o Sorted(SubSeq(data, 1, k - 1) \o SubSeq(data, k + 1, Len(data)))

Median(data) ==
    LET sorted == Sorted(data)
        n == Len(data)
    IN IF n % 2 = 1 THEN Frac(sorted[(n + 1) \div 2], 1)
       ELSE Frac(sorted[n \div 2] + sorted[n \div 2 + 1], 2)

Squares(data) == [k \in DOMAIN data |-> data[k] * data[k]]

\* np.std(data) squared: the population variance
StdSquared(data) ==
    Frac(Len(data) * Sum(Squares(data)) - Sum(data) * Sum(data), Len(data) * Len(data))

Positive(x) == x > 0

ZeroStats ==
    [mean |-> Frac(0, 1), sum |-> 0, max |-> 0, min |-> 0, std |-> Frac(0, 1),
     median |-> Frac(0, 1), pixels_count |-> 0, pixels_nonzero |-> 0]

StatsOf(valid_data) ==
    IF Len(valid_data) = 0 THEN ZeroStats
    ELSE [mean |-> Frac(Sum(valid_data), Len(valid_data)),
          sum |-> Sum(valid_data),
          max |-> Max(valid_data),
          min |-> Min(valid_data),
          std |-> StdSquared(valid_data),
          median |-> Median(valid_data),
          pixels_count |-> Len(valid_data),
          pixels_nonzero |-> Len(SelectSeq(valid_data, Positive))]

\* the except branch of the sampler lets the exception out
ErrorPropagates == [raised |-> TRUE, stats |-> <<>>]

\* the except branch of extract_raster_stats_in_buffer
ErrorStats == [raised |-> FALSE, stats |-> ZeroStats]

\* max_valid_value is <<>> for None
extract_raster_stats_in_buffer(raster, buffer, mask_fails, nodata_threshold, max_valid_value) ==
    IF MaskRaises(raster, buffer, mask_fails) THEN ErrorStats
    ELSE LET valid_mask(x) ==
                 /\ x >= nodata_threshold
                 /\ max_valid_value # <<>> => x <= max_valid_value[1]
         IN [raised |-> FALSE, stats |-> StatsOf(SelectSeq(Mask(raster, buffer), valid_mask))]

LightsStats(stats) ==
    [lights_mean |-> stats.mean, lights_sum |-> stats.sum, lights_max |-> stats.max,
     lights_std |-> stats.std, lights_pixels |-> stats.pixels_count]

extract_nightlights_in_buffer(raster, buffer, mask_fails) ==
    IF MaskRaises(raster, buffer, mask_fails)
    THEN [raised |-> FALSE, stats |-> LightsStats(ZeroStats)]
    ELSE LET NotNegative(x) == x >= 0
         IN [raised |-> FALSE,
             stats |-> LightsStats(StatsOf(SelectSeq(Mask(raster, buffer), NotNegative)))]

\* the raster and the buffer of the worked example: nine cells, all inside
ExampleRaster == [values |-> <<10, 20, 30, 0, 15, 25, 5, 12, 18>>, nodata |-> <<>>]

ExampleBuffer == [window |-> 1..9, inside |-> 1..9]

SamplerInputs ==
    {<<r, b>> : r \in Rasters, b \in {x \in Buffers : x.inside \subseteq x.window}}
        \cup {<<ExampleRaster, ExampleBuffer>>}

ExtractRasterStats ==
    /\ call.fn = "none"
    /\ \E input \in SamplerInputs, mask_fails \in BOOLEAN, max_valid_value \in Optional({3}) :
          LET out == extract_raster_stats_in_buffer(
                         input[1], input[2], mask_fails, nodata_threshold_default,
                         max_valid_value)
          IN call' = [fn |-> "extract_raster_stats_in_buffer", raster |-> input[1],
                      buffer |-> input[2], mask_fails |-> mask_fails,
                      nodata_threshold |-> nodata_threshold_default,
                      max_valid_value |-> max_valid_value,
                      raised |-> out.raised, stats |-> out.stats]
    /\ UNCHANGED <<a2_locs, a2_bills, num_chunks, chunks, job, run, files, calls, features>>

ExtractNightlights ==
    /\ call.fn = "none"
    /\ \E input \in SamplerInputs, mask_fails \in BOOLEAN :
          LET out == extract_nightlights_in_buffer(input[1], input[2], mask_fails)
          IN call' = [fn |-> "extract_nightlights_in_buffer", raster |-> input[1],
                      buffer |-> input[2], mask_fails |-> mask_fails,
                      nodata_threshold |-> 0, max_valid_value |-> <<>>,
                      raised |-> out.raised, stats |-> out.stats]
    /\ UNCHANGED <<a2_locs, a2_bills, num_chunks, chunks, job, run, files, calls, features>>

NextSampler ==
    \/ ExtractRasterStats
    \/ ExtractNightlights

SpecSampler == InitIndex /\ [][NextSampler]_vars

Samplers == {"extract_raster_stats_in_buffer", "extract_nightlights_in_buffer"}

\* whether a value passes the validity filter of the call
PassesFilter(c, x) ==
    /\ x >= c.nodata_threshold
    /\ c.max_valid_value # <<>> => x <= c.max_valid_value[1]

BufferOutsideRaster(c) == c.buffer.window \cap RasterCells(c.raster) = {}

NoCellPasses(c) ==
    \A k \in DOMAIN Mask(c.raster, c.buffer) : ~PassesFilter(c, Mask(c.raster, c.buffer)[k])

AllZero(c) ==
    IF c.fn = "extract_raster_stats_in_buffer" THEN c.stats = ZeroStats
    ELSE c.stats = LightsStats(ZeroStats)

\* C14: when the buffer lies outside the raster, the mask operation fails
\* or no cell passes the validity filter, a sampler returns every
\* statistic and the pixel count as zero, and does not raise.
C14_SamplerReturnsZeros ==
    (/\ call.fn \in Samplers
     /\ BufferOutsideRaster(call) \/ call.mask_fails \/ NoCellPasses(call))
    => /\ ~call.raised
       /\ AllZero(call)

C14_Witness ==
    /\ call.fn = "extract_raster_stats_in_buffer"
    /\ BufferOutsideRaster(call)
    /\ ~call.mask_fails
    /\ \E k \in DOMAIN call.raster.values : call.raster.values[k] > 0
    /\ ~call.raised
    /\ call.stats.pixels_count = 0

\* the cells of the raster inside the buffer polygon that pass the filter
RetainedCells(c) ==
    LET cells == CellsInOrder(c.buffer.inside \cap c.buffer.window \cap RasterCells(c.raster))
        values == [k \in DOMAIN cells |-> c.raster.values[cells[k]]]
        Passes(x) == PassesFilter(c, x)
    IN SelectSeq(values, Passes)

\* C15: extract_raster_stats_in_buffer computes its statistics over exactly
\* the cells inside the buffer that pass the filter; for the values of the
\* example it returns mean 15, sum 135, max 30, count 9 and 8 non-zero.
C15_StatsOverRetainedCells ==
    (call.fn = "extract_raster_stats_in_buffer"
     /\ ~MaskRaises(call.raster, call.buffer, call.mask_fails))
    => /\ call.stats = StatsOf(RetainedCells(call))
       /\ (call.raster = ExampleRaster /\ call.max_valid_value = <<>>) =>
             /\ call.stats.mean.num = 15 * call.stats.mean.den
             /\ call.stats.sum = 135
             /\ call.stats.max = 30
             /\ call.stats.pixels_count = 9
             /\ call.stats.pixels_nonzero = 8

(***************************************************************************)
(* The raster registries and the closest-year lookup.  A raster file is    *)
(* named by its prefix and the year in its name; glob results are sorted   *)
(* by name, and a registry lists its years in the order of first           *)
(* insertion.                                                              *)
(***************************************************************************)
RegistryYears == {2012, 2015, 2018}

TargetYears == 2011..2019

\* the two name patterns load_viirs_rasters reads a year from:
\* SVDNB_npp_<year>0101-<year>1231_*.tif and <prefix>_<year>_*.tif
ViirsPrefixes == <<"SVDNB_npp", "viirs">>

ViirsFiles == {[prefix |-> k, year |-> y] : k \in DOMAIN ViirsPrefixes, y \in RegistryYears}

\* the order of the file names: "SVDNB_npp..." sorts before "viirs..."
NameBefore(f, g) == f.prefix < g.prefix \/ (f.prefix = g.prefix /\ f.year <= g.year)

RECURSIVE SortedFiles(_)
SortedFiles(fileset) ==
    IF fileset = {} THEN <<>>
    ELSE LET first == CHOOSE f \in fileset : \A g \in fileset : NameBefore(f, g)
         IN <<first>> \o SortedFiles(fileset \ {first})

RECURSIVE DictKeys(_, _)
\* the keys of the dictionary filled by rasters[year] = src over the files
DictKeys(sorted_files, keys) ==
    IF sorted_files = <<>> THEN keys
    ELSE DictKeys(Tail(sorted_files),
                  IF Head(sorted_files).year \in Range(keys) THEN keys
                  ELSE Append(keys, Head(sorted_files).year))

load_viirs_rasters(fileset) == DictKeys(SortedFiles(fileset), <<>>)

\* population files share one prefix, so their names sort by year
load_population_rasters(years) ==
    DictKeys(SortedFiles({[prefix |-> 1, year |-> y] : y \in years}), <<>>)

\* population_extraction.process_chunk: min() of an empty list raises
closest_population_year(bill_year, available_years) ==
    IF available_years = <<>> THEN [raised |-> TRUE, year |-> <<>>]
    ELSE [raised |-> FALSE,
          year |-> <<MinScan(Tail(available_years), bill_year, Head(available_years))>>]

FindClosestRasterYear ==
    /\ call.fn = "none"
    /\ \E fileset \in SUBSET ViirsFiles, bill_year \in TargetYears :
          LET available_years == load_viirs_rasters(fileset)
          IN call' = [fn |-> "find_closest_raster_year",
                      available_years |-> available_years,
                      target_year |-> bill_year,
                      raised |-> FALSE,
                      closest_year |-> find_closest_raster_year(bill_year, available_years)]
    /\ UNCHANGED <<a2_locs, a2_bills, num_chunks, chunks, job, run, files, calls, features>>

ClosestPopulationYear ==
    /\ call.fn = "none"
    /\ \E years \in SUBSET RegistryYears, bill_year \in TargetYears :
          LET available_years == load_population_rasters(years)
              out == closest_population_year(bill_year, available_years)
          IN call' = [fn |-> "closest_population_year",
                      available_years |-> available_years,
                      target_year |-> bill_year,
                      raised |-> out.raised,
                      closest_year |-> out.year]
    /\ UNCHANGED <<a2_locs, a2_bills, num_chunks, chunks, job, run, files, calls, features>>

NextYears ==
    \/ FindClosestRasterYear
    \/ ClosestPopulationYear

SpecYears == InitIndex /\ [][NextYears]_vars

YearLookups == {"find_closest_raster_year", "closest_population_year"}

LookupReturned == call.fn \in YearLookups /\ call.available_years # <<>>

\* C16: the closest-year lookup returns an available year whose absolute
\* difference from the target year is minimal; with the years 2012, 2015
\* and 2018 available, 2016 gives 2015, 2013 gives 2012 and 2017 gives 2018.
C16_ClosestYearMinimal ==
    LookupReturned =>
        LET available == Range(call.available_years)
            closest == call.closest_year[1]
        IN /\ ~call.raised
           /\ call.closest_year # <<>>
           /\ closest \in available
           /\ \A y \in available :
                 Abs(closest - call.target_year) <= Abs(y - call.target_year)
           /\ available = {2012, 2015, 2018} =>
                 /\ call.target_year = 2016 => closest = 2015
                 /\ call.target_year = 2013 => closest = 2012
                 /\ call.target_year = 2017 => closest = 2018

C16_Witness ==
    /\ call.fn = "find_closest_raster_year"
    /\ Range(call.available_years) = {2012, 2015, 2018}
    /\ call.target_year = 2016
    /\ call.closest_year = <<2015>>

\* C17: when two available years are equally close to the target year, the
\* lookup returns the smaller of them, in whatever order the registry
\* lists its years.
C17_TieGivesSmallerYear ==
    LookupReturned =>
        \A y \in Range(call.available_years) :
            Abs(y - call.target_year) = Abs(call.closest_year[1] - call.target_year)
                => call.closest_year[1] <= y

(***************************************************************************)
(* The per-row loops of the road-distance and FSP extractors over the      *)
(* coordinates of the location.  The chunk holds one location, with        *)
(* NIS_RAD 1; a road network is given by its vertices and a distance by    *)
(* its square; <<>> is NaN.                                                *)
(***************************************************************************)
LocationRows == [NIS_RAD : {1}, LAT : Optional(LatValues), LON : Optional(LonValues)]

RoadNetworks == {{<<x, y>>} : x \in 0..MaxCoord, y \in 0..MaxCoord}

BillTables == SeqsUpTo(1..2, MaxBills)

FspTables ==
    SeqsUpTo([LAT : LatValues, LON : LonValues, installation : {<<>>}], 1)

\* a2_bills[a2_bills.nis_rad.isin(sc_locs.index)], with the index labels
ChunkBills(sc_loc, bills) ==
    LET Retained(r) == r.nis_rad = sc_loc.NIS_RAD
    IN SelectSeq([i \in DOMAIN bills |-> [bill_idx |-> i - 1, nis_rad |-> bills[i]]],
                 Retained)

\* Point(lon, lat).distance(roads_multiline): NaN for a NaN coordinate
\* (or np.nan from the except branch), the distance otherwise
calculate_distance_to_roads(lat, lon, roads_multiline) ==
    IF lat = <<>> \/ lon = <<>> THEN <<>>
    ELSE LET d2(v) == (v[1] - lon[1]) * (v[1] - lon[1]) + (v[2] - lat[1]) * (v[2] - lat[1])
             nearest == CHOOSE v \in roads_multiline :
                            \A w \in roads_multiline : d2(v) <= d2(w)
         IN <<d2(nearest)>>

\* the loop of process_roads_distances_chunk: spatial tells whether the
\* distance was computed from the coordinates of the row's location
process_roads_distances_chunk(sc_loc, bills, roads_multiline) ==
    LET chunk_bills == ChunkBills(sc_loc, bills)
    IN [k \in DOMAIN chunk_bills |->
           IF chunk_bills[k].nis_rad = sc_loc.NIS_RAD
           THEN [bill_idx |-> chunk_bills[k].bill_idx, spatial |-> TRUE,
                 value |-> calculate_distance_to_roads(sc_loc.LAT, sc_loc.LON,
                                                       roads_multiline)]
           ELSE [bill_idx |-> chunk_bills[k].bill_idx, spatial |-> FALSE, value |-> <<>>]]

\* find_fsp_in_buffer for the location and one FSP type: no entry (<<>>)
\* when the FSP table has no group, else the number of FSP points of the
\* index hits within the radius
find_fsp_in_buffer(sc_loc, fsp_data, radius) ==
    IF fsp_data = <<>> THEN <<>>
    ELSE LET idx == create_spatial_index(fsp_data).idx
             x == sc_loc.LON
             y == sc_loc.LAT
             hits_idx ==
                 IF x = <<>> \/ y = <<>> THEN {}
                 ELSE PotentialHits(idx, <<x[1] - radius, y[1] - radius,
                                           x[1] + radius, y[1] + radius>>)
             actual_hits ==
                 {i \in hits_idx :
                     (x[1] - fsp_data[i].LON[1]) * (x[1] - fsp_data[i].LON[1])
                     + (y[1] - fsp_data[i].LAT[1]) * (y[1] - fsp_data[i].LAT[1])
                     <= radius * radius}
         IN <<Cardinality(actual_hits)>>

\* the loop of fsp_extraction.process_chunk: the row gets a count only
\* when find_fsp_in_buffer made an entry for its location
process_fsp_chunk(sc_loc, bills, fsp_data, radius) ==
    LET chunk_bills == ChunkBills(sc_loc, bills)
        fsp_counts == find_fsp_in_buffer(sc_loc, fsp_data, radius)
    IN [k \in DOMAIN chunk_bills |->
           [bill_idx |-> chunk_bills[k].bill_idx, spatial |-> fsp_data # <<>>,
            value |-> fsp_counts]]

ProcessRoadsDistances ==
    /\ call.fn = "none"
    /\ \E sc_loc \in LocationRows, bills \in BillTables, roads \in RoadNetworks :
          call' = [fn |-> "process_roads_distances_chunk", sc_loc |-> sc_loc,
                   result |-> process_roads_distances_chunk(sc_loc, bills, roads)]
    /\ UNCHANGED <<a2_locs, a2_bills, num_chunks, chunks, job, run, files, calls, features>>

ProcessFsp ==
    /\ call.fn = "none"
    /\ \E sc_loc \in LocationRows, bills \in BillTables, fsp_data \in FspTables :
          call' = [fn |-> "process_fsp_chunk", sc_loc |-> sc_loc,
                   result |-> process_fsp_chunk(sc_loc, bills,
                                  [i \in DOMAIN fsp_data |->
                                      [LAT |-> <<fsp_data[i].LAT>>,
                                       LON |-> <<fsp_data[i].LON>>,
                                       installation |-> <<>>]], 1)]
    /\ UNCHANGED <<a2_locs, a2_bills, num_chunks, chunks, job, run, files, calls, features>>

NextRows ==
    \/ ProcessRoadsDistances
    \/ ProcessFsp

SpecRows == InitIndex /\ [][NextRows]_vars

\* the coordinates are absent or outside [-90, 90] x [-180, 180]
InvalidCoordinates(loc) ==
    \/ loc.LAT = <<>>
    \/ loc.LON = <<>>
    \/ loc.LAT[1] > MaxLat \/ loc.LAT[1] < 0 - MaxLat
    \/ loc.LON[1] > MaxLon \/ loc.LON[1] < 0 - MaxLon

\* C18: a retained billing row whose location has absent or out-of-range
\* coordinates takes part in no spatial operation and gets the default
\* value: 0 for a count, NaN for the road distance.
C18_InvalidCoordinatesGetDefaults ==
    (call.fn \in {"process_roads_distances_chunk", "process_fsp_chunk"}
     /\ InvalidCoordinates(call.sc_loc))
    => \A k \in DOMAIN call.result :
          /\ ~call.result[k].spatial
          /\ call.result[k].value =
                 IF call.fn = "process_fsp_chunk" THEN <<0>> ELSE <<>>

\* the value alone, whether or not a spatial operation ran
InvalidRowsGetDefaultValues ==
    (call.fn \in {"process_roads_distances_chunk", "process_fsp_chunk"}
     /\ InvalidCoordinates(call.sc_loc))
    => \A k \in DOMAIN call.result :
          call.result[k].value = IF call.fn = "process_fsp_chunk" THEN <<0>> ELSE <<>>

(***************************************************************************)
(* The pixel-grid classifier.  Coordinates are whole micro-degrees.  The   *)
(* pixel height 0.008340186677631579 is the height of the extent,          *)
(* 10.141667 degrees, over 1216 rows.                                      *)
(***************************************************************************)
MaxOffset == 3     \* micro-degrees sampled on each side of a cell border

pixel_width == 8333

x_origin == 33912610

y_origin == 5470695

extent_south == -4670972

y_limit == 1216

x_limit == 960

\* the pixel height as the fraction extent_height / y_limit
extent_height == y_origin - extent_south

\* floor(d / pixel_height) = floor(d * 1216 / extent_height), with
\* 1216 = 64 * 19 taken in two steps to stay within 32 bits
FloorByPixelHeight(d) ==
    LET t == 64 * d
    IN 19 * (t \div extent_height) + (19 * (t % extent_height)) \div extent_height

\* the boundary checks with every index from the limit on clamped
ClampFrom(index, limit) == IF index >= limit THEN limit - 1 ELSE index

\* the boundary checks: "if y == 1216: y = 1215" and "if x == 960: x = 959"
Clamp(index, limit) == IF index = limit THEN limit - 1 ELSE index

computed_x(lon) == Abs(x_origin - lon) \div pixel_width

computed_y(lat) == FloorByPixelHeight(Abs(y_origin - lat))

\* returns <<x, y>>: the column and the row
compute_pixel_coordinates(lat, lon) ==
    <<Clamp(computed_x(lon), x_limit), Clamp(computed_y(lat), y_limit)>>

\* the samples lie off the borders: for a coordinate exactly on a border
\* the rounding of the floating-point quotient decides the index
Offsets == ((0 - MaxOffset)..MaxOffset) \ {0}

\* latitudes around the borders of rows 0, 1215, 1216 and 1217
LatSamples ==
    {base + e : base \in {y_origin, extent_south + 8341, extent_south, extent_south - 8341},
                e \in Offsets}

\* longitudes around the borders of columns 0, 959, 960 and 961
LonSamples ==
    {x_origin + k * pixel_width + e : k \in {0, x_limit - 1, x_limit, x_limit + 1},
                                      e \in Offsets}

ComputePixelCoordinates ==
    /\ call.fn = "none"
    /\ \E lat \in LatSamples, lon \in LonSamples :
          LET xy == compute_pixel_coordinates(lat, lon)
          IN call' = [fn |-> "compute_pixel_coordinates", lat |-> lat, lon |-> lon,
                      x |-> xy[1], y |-> xy[2]]
    /\ UNCHANGED <<a2_locs, a2_bills, num_chunks, chunks, job, run, files, calls, features>>

\* float('-inf'): below every finite cell value
NegInf == 0 - 1073741824

CellValues == {NegInf, 0, 25, 50, 100}

\* the latitudes of rows 0, 1215 (clamped from 1216) and 1217
ClassifierLats == {y_origin, extent_south, extent_south - 8341}

ClassifierRows == [LAT : Optional(ClassifierLats), LON : Optional({x_origin})]

LocationTables == SeqsUpTo(ClassifierRows, MaxPoints)

\* the cells of the raster the sampled locations fall into
SampledCells == {<<0, 0>>, <<y_limit - 1, 0>>}

RuralUrbanRasters == [SampledCells -> CellValues]

\* no label at all, whatever the cell value
ClassificationNone(pixel_value) == <<>>

\* lines 73-76; <<>> is the missing label
Classification(pixel_value) ==
    IF pixel_value = NegInf THEN <<"NA">>
    ELSE IF pixel_value = 0 THEN <<"Peri_Urban">>
    ELSE IF pixel_value = 50 THEN <<"Urban">>
    ELSE IF pixel_value = 100 THEN <<"Rural">>
    ELSE <<>>

\* the result keeps the index labels of the rows with both coordinates;
\* raster_array[Y, X] raises IndexError outside the 1216 x 960 array
classify_locations(location_data, raster_array) ==
    LET HasCoordinates(r) == r.LAT # <<>> /\ r.LON # <<>>
        data == SelectSeq([i \in DOMAIN location_data |->
                              [index |-> i - 1, LAT |-> location_data[i].LAT,
                               LON |-> location_data[i].LON]], HasCoordinates)
        xy(r) == compute_pixel_coordinates(r.LAT[1], r.LON[1])
    IN IF \E k \in DOMAIN data : xy(data[k])[2] >= y_limit \/ xy(data[k])[1] >= x_limit
       THEN [raised |-> TRUE, data |-> <<>>]
       ELSE [raised |-> FALSE,
             data |-> [k \in DOMAIN data |->
                          [index |-> data[k].index, LAT |-> data[k].LAT,
                           LON |-> data[k].LON, X |-> xy(data[k])[1],
                           Y |-> xy(data[k])[2],
                           pixel_value |-> raster_array[<<xy(data[k])[2], xy(data[k])[1]>>],
                           classification |->
                               Classification(
                                   raster_array[<<xy(data[k])[2], xy(data[k])[1]>>])]]]

ClassifyLocations ==
    /\ call.fn = "none"
    /\ \E location_data \in LocationTables, raster \in RuralUrbanRasters :
          LET out == classify_locations(location_data, raster)
          IN call' = [fn |-> "classify_locations", location_data |-> location_data,
                      raster |-> raster, raised |-> out.raised, data |-> out.data]
    /\ UNCHANGED <<a2_locs, a2_bills, num_chunks, chunks, job, run, files, calls, features>>

NextClassifier ==
    \/ ComputePixelCoordinates
    \/ ClassifyLocations

SpecClassifier == InitIndex /\ [][NextClassifier]_vars

\* C19: compute_pixel_coordinates returns row 1215 for a computed row
\* index of exactly 1216 and column 959 for a computed column index of
\* exactly 960, and every other computed index as computed.
C19_ClampsExactlyTheLimit ==
    call.fn = "compute_pixel_coordinates" =>
        LET row == FloorByPixelHeight(Abs(y_origin - call.lat))
            column == Abs(x_origin - call.lon) \div pixel_width
        IN /\ row = 1216 => call.y = 1215
           /\ row # 1216 => call.y = row
           /\ column = 960 => call.x = 959
           /\ column # 960 => call.x = column

C19_Witness ==
    /\ call.fn = "compute_pixel_coordinates"
    /\ FloorByPixelHeight(Abs(y_origin - call.lat)) = 1216
    /\ call.y = 1215
    /\ Abs(x_origin - call.lon) \div pixel_width = 961
    /\ call.x = 961

\* C20: in the result of classify_locations a location is labelled 'NA'
\* for the cell value negative infinity, 'Peri_Urban' for 0, 'Urban' for
\* 50 and 'Rural' for 100, and has no label for any other value; a
\* location with an absent latitude or longitude is not in the result.
C20_LabelsByCellValue ==
    (call.fn = "classify_locations" /\ ~call.raised) =>
        /\ \A k \in DOMAIN call.data :
              LET r == call.data[k]
                  value == call.raster[<<r.Y, r.X>>]
              IN /\ r.pixel_value = value
                 /\ value = NegInf => r.classification = <<"NA">>
                 /\ value = 0 => r.classification = <<"Peri_Urban">>
                 /\ value = 50 => r.classification = <<"Urban">>
                 /\ value = 100 => r.classification = <<"Rural">>
                 /\ value \notin {NegInf, 0, 50, 100} => r.classification = <<>>
        /\ \A i \in DOMAIN call.location_data :
              (call.location_data[i].LAT = <<>> \/ call.location_data[i].LON = <<>>)
                  <=> ~\E k \in DOMAIN call.data : call.data[k].index = i - 1

C20_Witness ==
    /\ call.fn = "classify_locations"
    /\ ~call.raised
    /\ Len(call.location_data) = 2
    /\ Len(call.data) = 1
    /\ call.data[1].index = 1
    /\ call.data[1].Y = 1215
    /\ call.data[1].pixel_value = 50
    /\ call.data[1].classification = <<"Urban">>

(***************************************************************************)
(* create_binary_rural_urban, applied to the table classify_locations      *)
(* returned.  A series element is <<>> until a value is assigned to it.    *)
(***************************************************************************)
\* a mask that takes every row not labelled 'Urban' as rural
RuralMaskNotUrban(row) == row.classification # <<"Urban">>

\* classified_data['classification'] == 'Rural' (false for a missing label)
RuralMask(row) == row.classification = <<"Rural">>

create_binary_rural_urban(classified_data) ==
    LET binary_classification == [k \in DOMAIN classified_data |-> <<>>]
        rural_mask == [k \in DOMAIN classified_data |-> RuralMask(classified_data[k])]
        rural_assigned ==
            [k \in DOMAIN classified_data |->
                IF rural_mask[k] THEN <<"Rural">> ELSE binary_classification[k]]
    IN [k \in DOMAIN classified_data |->
           IF ~rural_mask[k] THEN <<"Urban">> ELSE rural_assigned[k]]

CreateBinaryRuralUrban ==
    /\ call.fn = "classify_locations"
    /\ ~call.raised
    /\ call' = [fn |-> "create_binary_rural_urban", classified_data |-> call.data,
                binary_classification |-> create_binary_rural_urban(call.data)]
    /\ UNCHANGED <<a2_locs, a2_bills, num_chunks, chunks, job, run, files, calls, features>>

NextBinary ==
    \/ ClassifyLocations
    \/ CreateBinaryRuralUrban

SpecBinary == InitIndex /\ [][NextBinary]_vars

\* C21: create_binary_rural_urban gives every row exactly one of 'Rural'
\* and 'Urban': 'Rural' exactly when the row's classification is 'Rural',
\* and 'Urban' for every other row, Peri_Urban, 'NA' and unlabelled rows
\* included.
C21_BinaryRuralUrban ==
    call.fn = "create_binary_rural_urban" =>
        /\ DOMAIN call.binary_classification = DOMAIN call.classified_data
        /\ \A k \in DOMAIN call.classified_data :
              /\ call.binary_classification[k] \in {<<"Rural">>, <<"Urban">>}
              /\ call.binary_classification[k] = <<"Rural">>
                    <=> call.classified_data[k].classification = <<"Rural">>
              /\ call.classified_data[k].classification
                     \in {<<"Peri_Urban">>, <<"NA">>, <<"Urban">>, <<>>}
                    => call.binary_classification[k] = <<"Urban">>

C21_Witness ==
    /\ call.fn = "create_binary_rural_urban"
    /\ Len(call.classified_data) = 2
    /\ call.classified_data[1].classification = <<"Rural">>
    /\ call.classified_data[2].classification = <<>>
    /\ call.binary_classification = <<(<<"Rural">>), (<<"Urban">>)>>

(***************************************************************************)
(* roads_to_multilines.  A line is named by a number; a geometry of the    *)
(* geometry column is None (<<>>) or a record with its geom_type and, for  *)
(* the line types, its lines in order.                                     *)
(***************************************************************************)
MaxGeoms == 2      \* rows of a roads table

MaxLines == 2      \* distinct lines

LineIds == 1..MaxLines

LineString(l) == [geom_type |-> "LineString", geoms |-> <<l>>]

MultiLineString(lines) == [geom_type |-> "MultiLineString", geoms |-> lines]

OtherGeometry(t) == [geom_type |-> t, geoms |-> <<>>]

Geometries ==
    {<<>>}
        \cup {LineString(l) : l \in LineIds}
        \cup {MultiLineString(ls) : ls \in SeqsUpTo(LineIds, 2)}
        \cup {OtherGeometry(t) : t \in {"Point", "Polygon"}}

GeometryColumns == SeqsUpTo(Geometries, MaxGeoms)

\* the lines a geometry adds, with the MultiLineString branch left out
LinesOfLineStringsOnly(geom) ==
    IF geom = <<>> THEN <<>>
    ELSE IF geom.geom_type = "LineString" THEN <<geom.geoms[1]>>
    ELSE <<>>

\* the lines one pass of the loop adds to "lines"
LinesOf(geom) ==
    IF geom = <<>> THEN <<>>
    ELSE IF geom.geom_type = "LineString" THEN <<geom.geoms[1]>>
    ELSE IF geom.geom_type = "MultiLineString" THEN geom.geoms
    ELSE <<>>

RECURSIVE CollectLines(_)
CollectLines(geometry) ==
    IF geometry = <<>> THEN <<>>
    ELSE LinesOf(Head(geometry)) \o CollectLines(Tail(geometry))

roads_to_multilines(geometry) ==
    LET lines == CollectLines(geometry)
    IN IF lines # <<>> THEN MultiLineString(lines) ELSE MultiLineString(<<>>)

RoadsToMultilines ==
    /\ call.fn = "none"
    /\ \E geometry \in GeometryColumns :
          call' = [fn |-> "roads_to_multilines", geometry |-> geometry,
                   result |-> roads_to_multilines(geometry)]
    /\ UNCHANGED <<a2_locs, a2_bills, num_chunks, chunks, job, run, files, calls, features>>

NextMultilines == RoadsToMultilines

SpecMultilines == InitIndex /\ [][NextMultilines]_vars

\* the component lines the C22 statement expects of a geometry column
RECURSIVE ExpectedLines(_, _)
ExpectedLines(geometry, k) ==
    IF k > Len(geometry) THEN <<>>
    ELSE (IF geometry[k] # <<>> /\ geometry[k].geom_type \in {"LineString", "MultiLineString"}
          THEN geometry[k].geoms ELSE <<>>) \o ExpectedLines(geometry, k + 1)

\* C22: roads_to_multilines returns a multi-line whose components are, in
\* input order, every LineString and every component of every
\* MultiLineString of the input; null and other geometries add nothing;
\* with no line in the input the result is an empty multi-line, not null.
C22_MultilineComponents ==
    call.fn = "roads_to_multilines" =>
        /\ call.result # <<>>
        /\ call.result.geom_type = "MultiLineString"
        /\ call.result.geoms = ExpectedLines(call.geometry, 1)

C22_Witness ==
    /\ call.fn = "roads_to_multilines"
    /\ Len(call.geometry) = 2
    /\ call.geometry[1] = MultiLineString(<<2, 1>>)
    /\ call.geometry[2] = LineString(2)
    /\ call.result = MultiLineString(<<2, 1, 2>>)

C22_WitnessEmpty ==
    /\ call.fn = "roads_to_multilines"
    /\ call.geometry = <<(<<>>), OtherGeometry("Point")>>
    /\ call.result = MultiLineString(<<>>)

(***************************************************************************)
(* calculate_road_lengths_in_buffer.  Line l covers the unit segments      *)
(* 1..l of the road space, and a buffer is the set of segments it covers,  *)
(* so the length of an intersection is a number of segments.               *)
(***************************************************************************)
SegmentsOf(l) == 1..l

RoadGeometries ==
    {<<>>} \cup {LineString(l) : l \in LineIds} \cup {MultiLineString(<<1, 2>>)}

RoadRows == [ROADCLASS : {"A", "B", "C"}, geometry : RoadGeometries]

RoadTables == SeqsUpTo(RoadRows, MaxGeoms)

RoadBuffers == SUBSET (1..MaxLines)

\* roads_to_multilines(roads_gdf[roads_gdf.ROADCLASS == class])
MultilineOfClass(roads_gdf, class) ==
    LET InClass(r) == r.ROADCLASS = class
        rows == SelectSeq(roads_gdf, InClass)
    IN roads_to_multilines([k \in DOMAIN rows |-> rows[k].geometry])

is_empty(multiline) == multiline.geoms = <<>>

\* multiline.intersection(buffer_geom).length
IntersectionLength(multiline, buffer_geom) ==
    Cardinality(UNION {SegmentsOf(multiline.geoms[k]) : k \in DOMAIN multiline.geoms}
                    \cap buffer_geom)

ZeroLengths ==
    [road_class_A_length |-> 0, road_class_B_length |-> 0, total_road_length |-> 0]

\* fails_a, fails_b: the intersection of that class with the buffer raises.
\* Both lengths are computed in one try block, so an exception in either
\* reaches the except branch, which returns zeros for every key.
calculate_road_lengths_in_buffer(roads_gdf, buffer_geom, fails_a, fails_b) ==
    LET multiline_a == MultilineOfClass(roads_gdf, "A")
        multiline_b == MultilineOfClass(roads_gdf, "B")
        raises_a == ~is_empty(multiline_a) /\ fails_a
        raises_b == ~is_empty(multiline_b) /\ fails_b
        length_a == IF ~is_empty(multiline_a)
                    THEN IntersectionLength(multiline_a, buffer_geom) ELSE 0
        length_b == IF ~is_empty(multiline_b)
                    THEN IntersectionLength(multiline_b, buffer_geom) ELSE 0
    IN IF raises_a \/ raises_b THEN ZeroLengths
       ELSE [road_class_A_length |-> length_a, road_class_B_length |-> length_b,
             total_road_length |-> length_a + length_b]

CalculateRoadLengths ==
    /\ call.fn = "none"
    /\ \E roads_gdf \in RoadTables, buffer_geom \in RoadBuffers, fails_a, fails_b \in BOOLEAN :
          call' = [fn |-> "calculate_road_lengths_in_buffer", roads_gdf |-> roads_gdf,
                   buffer_geom |-> buffer_geom, fails_a |-> fails_a, fails_b |-> fails_b,
                   result |-> calculate_road_lengths_in_buffer(roads_gdf, buffer_geom,
                                                               fails_a, fails_b)]
    /\ UNCHANGED <<a2_locs, a2_bills, num_chunks, chunks, job, run, files, calls, features>>

NextRoadLengths == CalculateRoadLengths

SpecRoadLengths == InitIndex /\ [][NextRoadLengths]_vars

\* the length the C23 statement expects for a class
ExpectedClassLength(c, class, fails) ==
    LET multiline == MultilineOfClass(c.roads_gdf, class)
    IN IF is_empty(multiline) \/ fails THEN 0
       ELSE IntersectionLength(multiline, c.buffer_geom)

\* C23: calculate_road_lengths_in_buffer reports for each class the length
\* of its merged lines inside the buffer, or 0 when the class is empty or
\* its intersection fails; the total is the sum of the two; a failure in
\* one class leaves the length reported for the other class as it is.
C23_PerClassLengths ==
    call.fn = "calculate_road_lengths_in_buffer" =>
        /\ call.result.road_class_A_length = ExpectedClassLength(call, "A", call.fails_a)
        /\ call.result.road_class_B_length = ExpectedClassLength(call, "B", call.fails_b)
        /\ call.result.total_road_length =
               call.result.road_class_A_length + call.result.road_class_B_length

\* the same without failures: lengths per class and their sum
RoadLengthsWithoutFailure ==
    (call.fn = "calculate_road_lengths_in_buffer" /\ ~call.fails_a /\ ~call.fails_b) =>
        /\ call.result.road_class_A_length = ExpectedClassLength(call, "A", FALSE)
        /\ call.result.road_class_B_length = ExpectedClassLength(call, "B", FALSE)
        /\ call.result.total_road_length =
               call.result.road_class_A_length + call.result.road_class_B_length

(***************************************************************************)
(* The two point-to-geometry distance functions with their except          *)
(* branches.  fails: point.distance(geometry) raises.                      *)
(***************************************************************************)
\* np.inf: above every distance
PosInf == 1073741824

\* calculate_distance_to_roads with its except branch: np.nan
DistanceToRoads(lat, lon, roads_multiline, fails) ==
    IF fails THEN [raised |-> FALSE, distance |-> <<>>]
    ELSE [raised |-> FALSE,
          distance |-> calculate_distance_to_roads(lat, lon, roads_multiline)]

\* spatial_utils.calculate_point_to_geometry_distance: its except branch
\* returns np.inf
calculate_point_to_geometry_distance(point, geometry, fails) ==
    IF fails THEN [raised |-> FALSE, distance |-> <<PosInf>>]
    ELSE [raised |-> FALSE,
          distance |-> calculate_distance_to_roads(<<point[2]>>, <<point[1]>>, geometry)]

CalculateDistanceToRoads ==
    /\ call.fn = "none"
    /\ \E lat, lon \in 0..MaxCoord, roads \in RoadNetworks, fails \in BOOLEAN :
          LET out == DistanceToRoads(<<lat>>, <<lon>>, roads, fails)
          IN call' = [fn |-> "calculate_distance_to_roads", lat |-> lat, lon |-> lon,
                      geometry |-> roads, fails |-> fails,
                      raised |-> out.raised, distance |-> out.distance]
    /\ UNCHANGED <<a2_locs, a2_bills, num_chunks, chunks, job, run, files, calls, features>>

CalculatePointToGeometryDistance ==
    /\ call.fn = "none"
    /\ \E lat, lon \in 0..MaxCoord, geometry \in RoadNetworks, fails \in BOOLEAN :
          LET out == calculate_point_to_geometry_distance(<<lon, lat>>, geometry, fails)
          IN call' = [fn |-> "calculate_point_to_geometry_distance", lat |-> lat,
                      lon |-> lon, geometry |-> geometry, fails |-> fails,
                      raised |-> out.raised, distance |-> out.distance]
    /\ UNCHANGED <<a2_locs, a2_bills, num_chunks, chunks, job, run, files, calls, features>>

NextDistance ==
    \/ CalculateDistanceToRoads
    \/ CalculatePointToGeometryDistance

SpecDistance == InitIndex /\ [][NextDistance]_vars

DistanceFunctions == {"calculate_distance_to_roads", "calculate_point_to_geometry_distance"}

\* C24: each point-to-geometry distance function returns NaN and raises
\* nothing whenever the distance computation underneath fails.
C24_FailedDistanceIsNaN ==
    (call.fn \in DistanceFunctions /\ call.fails)
    => /\ ~call.raised
       /\ call.distance = <<>>

\* no exception leaves either function
FailedDistanceNeverRaises ==
    (call.fn \in DistanceFunctions /\ call.fails) => ~call.raised

(***************************************************************************)
(* get_radius_degrees.  The quotients are kept as fractions of whole       *)
(* meters over meters per degree.                                          *)
(***************************************************************************)
MaxMeters == 150   \* buffer distances -MaxMeters..MaxMeters, besides the configured ones

lat_degree == 110540

lon_degree == 111320

BufferMeters == ((0 - MaxMeters)..MaxMeters) \cup {500, 10000}

\* a < b for fractions with positive denominators
FracLess(a, b) == a.num * b.den < b.num * a.den

\* the smaller of the two, the first when they are equal
min2(a, b) == IF FracLess(b, a) THEN b ELSE a

\* Python's max(a, b): the larger of the two, the first when they are equal
max2(a, b) == IF FracLess(a, b) THEN b ELSE a

get_radius_degrees(buffer_meters) ==
    LET lat_radius == Frac(buffer_meters, lat_degree)
        lon_radius == Frac(buffer_meters, lon_degree)
    IN max2(lat_radius, lon_radius)

GetRadiusDegrees ==
    /\ call.fn = "none"
    /\ \E buffer_meters \in BufferMeters :
          call' = [fn |-> "get_radius_degrees", buffer_meters |-> buffer_meters,
                   result |-> get_radius_degrees(buffer_meters)]
    /\ UNCHANGED <<a2_locs, a2_bills, num_chunks, chunks, job, run, files, calls, features>>

NextRadius == GetRadiusDegrees

SpecRadius == InitIndex /\ [][NextRadius]_vars

\* C25: for a radius >= 0 in meters get_radius_degrees returns the larger
\* of radius / lat_degree and radius / lon_degree: one of the two
\* quotients, not below either, and never negative.
C25_LargerQuotient ==
    (call.fn = "get_radius_degrees" /\ call.buffer_meters >= 0) =>
        LET by_lat == Frac(call.buffer_meters, 110540)
            by_lon == Frac(call.buffer_meters, 111320)
        IN /\ call.result \in {by_lat, by_lon}
           /\ ~FracLess(call.result, by_lat)
           /\ ~FracLess(call.result, by_lon)
           /\ call.result.num >= 0 /\ call.result.den > 0

C25_Witness ==
    /\ call.fn = "get_radius_degrees"
    /\ call.buffer_meters = 500
    /\ call.result = Frac(500, 110540)

(***************************************************************************)
(* The registries with their handles.  A registry maps each year to the    *)
(* handle stored for it: the file it was opened from and whether it is     *)
(* still open when the loader returns.  Both loaders store the handle      *)
(* inside "with rasterio.open(file) as src".                               *)
(***************************************************************************)
\* two population files may carry the same year in their names
PopulationFiles == {[prefix |-> k, year |-> y] : k \in 1..2, y \in RegistryYears}

RECURSIVE StoreHandles(_, _)
\* rasters[year] = src for each file in turn: a later file of the same
\* year replaces the handle stored before
StoreHandles(sorted_files, rasters) ==
    IF sorted_files = <<>> THEN rasters
    ELSE LET file == Head(sorted_files)
         IN StoreHandles(Tail(sorted_files),
                [y \in DOMAIN rasters \cup {file.year} |->
                    IF y = file.year THEN [file |-> file, open |-> HandleOpenAfterLoad]
                    ELSE rasters[y]])

LoadRegistry(fileset) == StoreHandles(SortedFiles(fileset), <<>>)

LoadViirsRasters ==
    /\ call.fn = "none"
    /\ \E fileset \in SUBSET ViirsFiles :
          call' = [fn |-> "load_viirs_rasters", fileset |-> fileset,
                   rasters |-> LoadRegistry(fileset)]
    /\ UNCHANGED <<a2_locs, a2_bills, num_chunks, chunks, job, run, files, calls, features>>

LoadPopulationRasters ==
    /\ call.fn = "none"
    /\ \E fileset \in SUBSET PopulationFiles :
          call' = [fn |-> "load_population_rasters", fileset |-> fileset,
                   rasters |-> LoadRegistry(fileset)]
    /\ UNCHANGED <<a2_locs, a2_bills, num_chunks, chunks, job, run, files, calls, features>>

NextRegistry ==
    \/ LoadViirsRasters
    \/ LoadPopulationRasters

SpecRegistry == InitIndex /\ [][NextRegistry]_vars

RegistryLoaders == {"load_viirs_rasters", "load_population_rasters"}

\* the file of a year that comes last in the order of loading
LastFileOfYear(fileset, y) ==
    CHOOSE f \in fileset :
        /\ f.year = y
        /\ \A g \in fileset : g.year = y => NameBefore(g, f)

OneHandlePerYear(c) ==
    /\ DOMAIN c.rasters = {f.year : f \in c.fileset}
    /\ \A y \in DOMAIN c.rasters : c.rasters[y].file = LastFileOfYear(c.fileset, y)

\* C26: when a registry load returns, the registry holds exactly one
\* handle per resolved year, the handle of the file loaded last for that
\* year, and every stored handle is still open.
C26_HandlesOpenOnePerYear ==
    call.fn \in RegistryLoaders =>
        /\ OneHandlePerYear(call)
        /\ \A y \in DOMAIN call.rasters : call.rasters[y].open

\* one handle per year, that of the file loaded last
RegistryKeepsLastFile == call.fn \in RegistryLoaders => OneHandlePerYear(call)

(***************************************************************************)
(* The year load_viirs_rasters reads from a file name.  A file name is     *)
(* the sequence of its characters: tokens joined by "_" and the suffix     *)
(* ".tif".                                                                 *)
(***************************************************************************)
MaxTokens == 3     \* tokens of a file name

SVDNB == <<"S", "V", "D", "N", "B">>

NameTokens ==
    {SVDNB,
     <<"n", "p", "p">>,
     <<"2", "0", "1", "2", "0", "1", "0", "1">>,
     <<"2", "0", "1", "8">>,
     <<"v", "1">>}

TifSuffix == <<".", "t", "i", "f">>

RECURSIVE JoinTokens(_)
JoinTokens(tokens) ==
    IF Len(tokens) = 1 THEN tokens[1]
    ELSE tokens[1] \o <<"_">> \o JoinTokens(Tail(tokens))

FileNames == {JoinTokens(ts) \o TifSuffix : ts \in SeqsUpTo(NameTokens, MaxTokens) \ {<<>>}}

\* pattern in filename
Contains(filename, pattern) ==
    \E i \in 1..(Len(filename) - Len(pattern) + 1) :
        SubSeq(filename, i, i + Len(pattern) - 1) = pattern

RECURSIVE SplitAt(_, _, _)
\* filename.split('_'): current is the part being read
SplitAt(filename, sep, current) ==
    IF filename = <<>> THEN <<current>>
    ELSE IF Head(filename) = sep THEN <<current>> \o SplitAt(Tail(filename), sep, <<>>)
    ELSE SplitAt(Tail(filename), sep, Append(current, Head(filename)))

split(filename) == SplitAt(filename, "_", <<>>)

DigitChars == {"0", "1", "2", "3", "4", "5", "6", "7", "8", "9"}

DigitValue(c) ==
    CASE c = "0" -> 0 [] c = "1" -> 1 [] c = "2" -> 2 [] c = "3" -> 3 [] c = "4" -> 4
      [] c = "5" -> 5 [] c = "6" -> 6 [] c = "7" -> 7 [] c = "8" -> 8 [] c = "9" -> 9

\* part[:4]
First4(part) == SubSeq(part, 1, IF Len(part) < 4 THEN Len(part) ELSE 4)

isdigit(s) == s # <<>> /\ \A k \in DOMAIN s : s[k] \in DigitChars

RECURSIVE int(_)
\* int(s) for a string of digits
int(s) ==
    IF s = <<>> THEN 0
    ELSE 10 * int(SubSeq(s, 1, Len(s) - 1)) + DigitValue(s[Len(s)])

\* whether a part is taken by the loop over the parts of a generic name
StartsWithYear(part) == Len(part) >= 4 /\ isdigit(First4(part))

\* the branch for a name holding 'SVDNB': split('_')[2] raises IndexError
\* for fewer than three parts and int() raises ValueError for a non-number;
\* the except branch of the loader then skips the file
SvdnbYear(parts) ==
    IF Len(parts) < 3 THEN [left_out |-> TRUE, year |-> <<>>]
    ELSE IF ~isdigit(First4(parts[3])) THEN [left_out |-> TRUE, year |-> <<>>]
    ELSE [left_out |-> FALSE, year |-> <<int(First4(parts[3]))>>]

\* the branch for the other names: with more than two parts the first part
\* starting with four digits, else the default year
GenericYear(parts) ==
    IF Len(parts) > 2
    THEN IF \E k \in DOMAIN parts : StartsWithYear(parts[k])
         THEN LET first == CHOOSE k \in DOMAIN parts :
                               /\ StartsWithYear(parts[k])
                               /\ \A j \in 1..(k - 1) : ~StartsWithYear(parts[j])
              IN [left_out |-> FALSE, year |-> <<int(First4(parts[first]))>>]
         ELSE [left_out |-> FALSE, year |-> <<2015>>]
    ELSE [left_out |-> FALSE, year |-> <<2015>>]

ResolveYear(filename) ==
    IF Contains(filename, SVDNB) THEN SvdnbYear(split(filename))
    ELSE GenericYear(split(filename))

ResolveFileYear ==
    /\ call.fn = "none"
    /\ \E filename \in FileNames :
          LET out == ResolveYear(filename)
          IN call' = [fn |-> "resolve_year", filename |-> filename,
                      left_out |-> out.left_out, year |-> out.year]
    /\ UNCHANGED <<a2_locs, a2_bills, num_chunks, chunks, job, run, files, calls, features>>

NextResolve == ResolveFileYear

SpecResolve == InitIndex /\ [][NextResolve]_vars

\* the name has the format SVDNB_npp_<year...>_*.tif
HasSvdnbFormat(parts) ==
    /\ parts[1] = SVDNB
    /\ Len(parts) >= 3
    /\ StartsWithYear(parts[3])

\* the year the C27 statement gives a file name
ExpectedYear(parts) ==
    IF HasSvdnbFormat(parts) THEN int(First4(parts[3]))
    ELSE IF \E k \in DOMAIN parts : StartsWithYear(parts[k])
    THEN int(First4(parts[CHOOSE k \in DOMAIN parts :
                              /\ StartsWithYear(parts[k])
                              /\ \A j \in 1..(k - 1) : ~StartsWithYear(parts[j])]))
    ELSE 2015

\* C27: the night-lights registry resolves the year of a file name by the
\* first rule that applies: the year of the SVDNB format when the name has
\* that format, else the first token of four digits in the name, else the
\* default 2015; no file name keeps its file out of the registry.
C27_YearResolutionOrder ==
    call.fn = "resolve_year" =>
        /\ ~call.left_out
        /\ call.year = <<ExpectedYear(split(call.filename))>>

\* a name of the SVDNB format resolves to the year of that format
SvdnbFormatResolved ==
    (call.fn = "resolve_year" /\ HasSvdnbFormat(split(call.filename))) =>
        /\ ~call.left_out
        /\ call.year = <<int(First4(split(call.filename)[3]))>>

(***************************************************************************)
(* The row loops of the structures and FSP extractors, run over the rows   *)
(* in a given order.  The loop carries the results table from row to row.  *)
(***************************************************************************)
CustomerRows ==
    [NIS_RAD : 1..2, LAT : Optional({0, 1}), LON : {<<0>>}, installation : {<<1>>}]

CustomerTables == SeqsUpTo(CustomerRows, MaxPoints)

TxTables == SeqsUpTo([LAT : {<<0>>, <<1>>}, LON : {<<0>>}], 1)

PeriodBillRows == [nis_rad : 1..2, period : {0, 1}]

PeriodBillTables == SeqsUpTo(PeriodBillRows, MaxBills)

\* customers_in_buffer: rows (by position) of the customers table; the
\* index label of row i is i - 1, and tx_data carries the labels 0..
count_electrified_structures(tx_data, customers, customers_in_buffer) ==
    IF customers_in_buffer = {} THEN 0
    ELSE LET tx_matches ==
                 {<<i, t>> \in customers_in_buffer \X DOMAIN tx_data :
                     /\ customers[i].LAT = tx_data[t].LAT
                     /\ customers[i].LON = tx_data[t].LON}
             non_tx_customers ==
                 {i \in customers_in_buffer : i - 1 \notin {t - 1 : t \in DOMAIN tx_data}}
             non_tx_coordinates ==
                 {<<customers[i].LAT, customers[i].LON>> : i \in non_tx_customers}
         IN Cardinality(tx_matches) + Cardinality(non_tx_coordinates)

\* the body of the loop for one bill row: <<>> when the row is skipped
\* ("continue"), else the count stored for it
StructuresRow(bill_row, customers_all, tx_data) ==
    LET customer_loc == {i \in DOMAIN customers_all : customers_all[i].NIS_RAD = bill_row.nis_rad}
    IN IF customer_loc = {} THEN <<>>
       ELSE LET first == customers_all[CHOOSE i \in customer_loc : \A j \in customer_loc : i <= j]
            IN IF first.LAT = <<>> \/ first.LON = <<>> THEN <<>>
               ELSE LET spatial_idx == create_customer_spatial_index(customers_all).idx
                        found == find_customers_in_buffer(
                                     first.LAT[1], first.LON[1], spatial_idx, customers_all,
                                     1, <<bill_row.period>>)
                    IN <<count_electrified_structures(tx_data, customers_all,
                                                     found.in_buffer)>>

\* a store that adds the count to what the rows before left in the table
StoreAccumulated(results, bill_idx, value) ==
    IF value = <<>> THEN results
    ELSE [results EXCEPT ![bill_idx] =
             value[1] + Sum([k \in 1..Len(results) |-> results[k]])]

\* results.loc[bill_idx, 'electrified_structures'] = struct_count
Store(results, bill_idx, value) ==
    IF value = <<>> THEN results ELSE [results EXCEPT ![bill_idx] = value[1]]

RECURSIVE StructuresLoop(_, _, _, _, _, _)
\* the loop over chunk_bills taken in the given order, from its k-th step
StructuresLoop(chunk_bills, order, k, customers_all, tx_data, results) ==
    IF k > Len(chunk_bills) THEN results
    ELSE StructuresLoop(chunk_bills, order, k + 1, customers_all, tx_data,
             Store(results, order[k],
                   StructuresRow(chunk_bills[order[k]], customers_all, tx_data)))

\* results['electrified_structures'] = 0, then the loop
process_structures_rows(chunk_bills, order, customers_all, tx_data) ==
    StructuresLoop(chunk_bills, order, 1, customers_all, tx_data,
                   [k \in DOMAIN chunk_bills |-> 0])

FspLocations ==
    {<<>>}
        \cup {<<[NIS_RAD |-> 1, LAT |-> lat, LON |-> <<0>>]>> : lat \in Optional(0..MaxCoord)}
        \cup {<<[NIS_RAD |-> 1, LAT |-> a, LON |-> <<0>>], [NIS_RAD |-> 2, LAT |-> b, LON |-> <<0>>]>> :
                 a \in Optional(0..MaxCoord), b \in Optional(0..MaxCoord)}

RECURSIVE FspLoop(_, _, _, _, _)
\* the loop of find_fsp_in_buffer over the locations, for one FSP type:
\* results[sc_idx][fsp_type] = len(actual_hits)
FspLoop(sc_locs, order, k, fsp_data, results) ==
    IF k > Len(sc_locs) THEN results
    ELSE FspLoop(sc_locs, order, k + 1, fsp_data,
             [results EXCEPT ![order[k]] =
                 find_fsp_in_buffer(sc_locs[order[k]], fsp_data, 1)])

find_fsp_in_buffer_all(sc_locs, order, fsp_data) ==
    FspLoop(sc_locs, order, 1, fsp_data, [k \in DOMAIN sc_locs |-> <<>>])

Identity(n) == [k \in 1..n |-> k]

ProcessStructuresRows ==
    /\ call.fn = "none"
    /\ \E customers_all \in CustomerTables, tx_data \in TxTables,
          chunk_bills \in PeriodBillTables :
          \E order \in Permutations(DOMAIN chunk_bills) :
             call' = [fn |-> "process_structures_rows", customers_all |-> customers_all,
                      tx_data |-> tx_data, chunk_bills |-> chunk_bills, order |-> order,
                      results |-> process_structures_rows(chunk_bills, order,
                                                          customers_all, tx_data)]
    /\ UNCHANGED <<a2_locs, a2_bills, num_chunks, chunks, job, run, files, calls, features>>

FindFspInBuffer ==
    /\ call.fn = "none"
    /\ \E sc_locs \in FspLocations, fsp_data \in FspTables :
          \E order \in Permutations(DOMAIN sc_locs) :
             LET fsp == [i \in DOMAIN fsp_data |->
                            [LAT |-> <<fsp_data[i].LAT>>, LON |-> <<fsp_data[i].LON>>,
                             installation |-> <<>>]]
             IN call' = [fn |-> "find_fsp_in_buffer", sc_locs |-> sc_locs,
                         fsp_data |-> fsp, order |-> order,
                         results |-> find_fsp_in_buffer_all(sc_locs, order, fsp)]
    /\ UNCHANGED <<a2_locs, a2_bills, num_chunks, chunks, job, run, files, calls, features>>

NextRowOrder ==
    \/ ProcessStructuresRows
    \/ FindFspInBuffer

SpecRowOrder == InitIndex /\ [][NextRowOrder]_vars

\* C28: for fixed reference data the rows of a chunk get the same feature
\* values in whatever order they are processed: the value of a row is the
\* value computed from that row's own inputs alone.
C28_OrderIndependent ==
    /\ call.fn = "process_structures_rows" =>
          /\ call.results =
                 process_structures_rows(call.chunk_bills, Identity(Len(call.chunk_bills)),
                                         call.customers_all, call.tx_data)
          /\ \A k \in DOMAIN call.chunk_bills :
                LET alone == StructuresRow(call.chunk_bills[k], call.customers_all,
                                           call.tx_data)
                IN call.results[k] = IF alone = <<>> THEN 0 ELSE alone[1]
    /\ call.fn = "find_fsp_in_buffer" =>
          /\ call.results =
                 find_fsp_in_buffer_all(call.sc_locs, Identity(Len(call.sc_locs)),
                                        call.fsp_data)
          /\ \A k \in DOMAIN call.sc_locs :
                call.results[k] = find_fsp_in_buffer(call.sc_locs[k], call.fsp_data, 1)

C28_Witness ==
    /\ call.fn = "process_structures_rows"
    /\ Len(call.chunk_bills) = 2
    /\ call.order = <<2, 1>>
    /\ call.results[1] > 1
    /\ call.results[2] = 0
    /\ StructuresRow(call.chunk_bills[2], call.customers_all, call.tx_data) = <<0>>

(***************************************************************************)
(* The chunk files of the array job against the pattern the orchestrator   *)
(* globs for the family.                                                   *)
(***************************************************************************)
\* the chunk output files of the job's family that have been written
WrittenChunkOutputs ==
    {p \in DOMAIN files : \E c \in ChunkIds : p = OutputPath(job[0], c)}

MatchedByPattern == Glob(files, pattern_map(FeatureName(job[0])))

\* C29: every chunk output file written by a family's extractor is matched
\* by the pattern combine_feature_files uses for the family, and no other
\* file is; so once all chunks are persisted the combined table of the
\* family is read from all of the chunk files.
C29_PatternMatchesChunkOutputs ==
    /\ MatchedByPattern = WrittenChunkOutputs
    /\ (features.fn = "combine_feature_files"
        /\ \A c \in ChunkIds : run[c].pc = "Persisted")
       => Range(features.read) = WrittenChunkOutputs

\* the families whose chunk files the pattern does match
PatternMatchesFspAndPopulation ==
    job[0] \in {"fsp", "population"} => WrittenChunkOutputs \subseteq MatchedByPattern

(***************************************************************************)
(* The cells compute_pixel_coordinates returns against the extent of the   *)
(* raster.                                                                 *)
(***************************************************************************)
extent_east == 41912610

InsideExtent(lat, lon) ==
    /\ lon >= x_origin /\ lon <= extent_east
    /\ lat >= extent_south /\ lat <= y_origin

InsideGrid(x, y) ==
    /\ x >= 0 /\ x <= x_limit - 1
    /\ y >= 0 /\ y <= y_limit - 1

\* C30: compute_pixel_coordinates gives a cell inside the grid (column
\* 0..959, row 0..1215) exactly for the locations inside the extent of the
\* raster; a location outside the extent never gets a cell inside the grid.
C30_InsideGridIffInsideExtent ==
    call.fn = "compute_pixel_coordinates" =>
        (InsideGrid(call.x, call.y) <=> InsideExtent(call.lat, call.lon))

\* a location inside the extent gets a cell inside the grid
InsideExtentGetsCell ==
    (call.fn = "compute_pixel_coordinates" /\ InsideExtent(call.lat, call.lon))
    => InsideGrid(call.x, call.y)

====
